---------------------------- MODULE Spec2Model ----------------------------
(***************************************************************************)
(* A model of hata's websocket protocol engine                             *)
(* (src/hata/backend/websocket.py): one connection object                  *)
(* (WebSocketCommonProtocol, as WSClient or WSServerProtocol), the tasks   *)
(* that run on it (the opening handshake, transfer_data,                   *)
(* close_connection, and the callers of send / ping / pong / close) and    *)
(* the transport's callbacks.  Every action is one step of one task, from  *)
(* one suspension point (await) to the next, or one callback.              *)
(***************************************************************************)
EXTENDS Integers, Sequences, FiniteSets, TLC

(***************************************************************************)
(* Bounds of the model.                                                    *)
(***************************************************************************)
\* Frames (or read errors) the peer delivers to the read loop over a run.
MaxReads == 2
\* The same, in the runs that follow the read loop through whole messages.
MaxFrames == 3
\* Bytes in the payload of one data frame of those runs.
MaxFragment == 2
\* The longest list of subprotocols, of the server and of a request.
MaxSubprotocols == 3

(***************************************************************************)
(* Program constants.                                                      *)
(***************************************************************************)
CONNECTING == "CONNECTING"
OPEN       == "OPEN"
CLOSING    == "CLOSING"
CLOSED     == "CLOSED"

WS_OP_CONT   == 0
WS_OP_TEXT   == 1
WS_OP_BINARY == 2
WS_OP_CLOSE  == 8
WS_OP_PING   == 9
WS_OP_PONG   == 10

WS_DATA_OPCODES == {WS_OP_CONT, WS_OP_TEXT, WS_OP_BINARY}

\* http.HTTPStatus
SWITCHING_PROTOCOLS   == 101
BAD_REQUEST           == 400
FORBIDDEN             == 403
UPGRADE_REQUIRED      == 426
INTERNAL_SERVER_ERROR == 500
SERVICE_UNAVAILABLE   == 503

EXTERNAL_CLOSE_CODES == {1000, 1001, 1002, 1003, 1007, 1008, 1009, 1010, 1011}

\* The callers of the public operations, the tasks of the connection.
Users == {"u1", "u2"}
Callers == {"u1"}
Writers == Users \cup {"rd"}

\* Close codes the callers of close() try.
CloseArgs == {999, 1000, 5000}
\* Payloads a caller hands to ping(); NoData stands for None.
NoData == <<255, 255>>
PingArgs == {NoData, <<>>}
\* The status of the early response a request processer gives.
EarlyStatus == 200
\* What urandom(4) can return.
RandTokens == {<<0, 0, 0, 1>>, <<0, 0, 0, 2>>}

\* max_size as __init__ sets it when the caller gives none: 1 << 26.
DefaultMaxSize == 67108864
\* The values of max_size and max_queue (0: None) connections are also made with.
SizeLimits == {2, 3}
QueueSizes == {0, 1, 2}
\* The bytes of the payloads: 'A', and the two bytes of U+00E9.
Bytes == {65, 195, 169}

VARIABLES
    is_client,          \* WSClient (TRUE) or WSServerProtocol (FALSE)
    is_ssl,             \* .is_ssl
    max_size,           \* .max_size
    max_queue,          \* .max_queue: 0 for None (no limit), else the capacity
    extensions,         \* .extensions: the negotiated extensions, in order
    subprotocol,        \* .subprotocol: the negotiated subprotocol, or "none"
    handshake,          \* history of the opening handshake: what was offered
                        \* (offer), the peer's message (msg), the exception it
                        \* ended with (exc) and the status answered (status)
    state,              \* .state
    close_code,         \* .close_code, 0 until known
    close_reason,       \* .close_reason: NoReason for None, else the str, as its code points
    transfer_data_exc,  \* .transfer_data_exc: 0 for None, else the ConnectionClosed's code
    clw,                \* .connection_lost_waiter is done
    pings,              \* .pings: the ordered dict, as a sequence of [token, id]
    waiter,             \* the ping waiters (futures), by the caller of ping()
    messages,           \* .messages: the received messages nobody has taken yet
    getters,            \* .messages: the futures of the waiting receive() calls, oldest first
    log,                \* history: the messages reassembled, those handed to receive(),
                        \* and the data frames taken for the latest message
    lockHolder,         \* ._drain_lock: the task inside it, or "none"
    lockQ,              \* ._drain_lock: the tasks waiting for it, oldest first
    transport,          \* what was done to the transport: [eof, closed, aborted, lost]
    sent,               \* the frames written to the transport, oldest first
    hs,                 \* position of the opening handshake
    rd,                 \* .transfer_data_task: [pc, throw, frame, cause] and the locals of
                        \* read_message: [frag, text, buf (chunks), dec (decoder), left
                        \* (max_size)]
    cc,                 \* .close_connection_task: its position
    usr,                \* the callers: [pc, op, arg, res, code, cs, frame, msg]
    nReads,             \* frames delivered so far
    server,             \* WSServer.server: the listener, "serving", "closing" or "closed"
    websockets,         \* WSServer.websockets
    conn,               \* the connections the listener accepted: [task (position of
                        \* lifetime_handler), state, opened (transfer_data_task is
                        \* not None), close (position of the close(1001) of _close)]
    closer              \* WSServer.close_connection_task: [pc, closes, handlers]

confVars == <<is_client, is_ssl, max_size, max_queue>>
hsVars   == <<extensions, subprotocol, handshake>>
regVars  == <<server, websockets, conn, closer>>
connVars == <<confVars, regVars, hsVars, state, close_code, close_reason, transfer_data_exc, clw>>
dataVars == <<pings, waiter, messages>>
queVars  == <<getters, log>>
ioVars   == <<lockHolder, lockQ, transport, sent>>
taskVars == <<hs, rd, cc, usr>>
cntVars  == <<nReads>>
vars == <<connVars, dataVars, queVars, ioVars, taskVars, cntVars>>

\* enc: the extensions the frame is encoded by, in the order they encoded it.
NoFrame == [op |-> 255, data |-> <<>>, enc |-> <<>>]
Frame(op, data) == [op |-> op, data |-> data, enc |-> <<>>]

\* A received message: str (text, as its code points) or bytes.
Message(text, val) == [text |-> text, val |-> val]
NoMessage == Message(FALSE, <<-1>>)

\* close_reason as __init__ leaves it: None.
NoReason == <<-1>>

(***************************************************************************)
(* Pure helpers.                                                           *)
(***************************************************************************)

\* code in EXTERNAL_CLOSE_CODES or 2999 < code < 5000
\* (_LaxUpper: with the upper limit included.)
ValidCloseCode_LaxUpper(code) == code \in EXTERNAL_CLOSE_CODES \/ (2999 < code /\ code <= 5000)
ValidCloseCode(code) == code \in EXTERNAL_CLOSE_CODES \/ (2999 < code /\ code < 5000)

\* code.to_bytes(2, 'big') + reason.encode('utf-8')
SerializeClose(code, reason) == <<code \div 256, code % 256>> \o reason

\* int.from_bytes(data[:2], 'big')
CodeFromBytes(data) == data[1] * 256 + data[2]


Remove(q, t) == SelectSeq(q, LAMBDA x : x # t)

Min(S) == CHOOSE x \in S : \A y \in S : x <= y

(***************************************************************************)
(* UTF-8, for the bytes of one- and two-byte sequences (bytes that start   *)
(* longer sequences are not among the payloads).                           *)
(***************************************************************************)
Utf8IsCont(b) == 128 <= b /\ b <= 191

\* The continuation bytes a first byte asks for; -1: no sequence starts so.
Utf8Need(b) == IF b < 128 THEN 0 ELSE IF 194 <= b /\ b <= 223 THEN 1 ELSE -1

Utf8Error == [ok |-> FALSE, chars |-> <<>>, rest |-> <<>>]

\* The code points of the complete sequences of bs, and the incomplete
\* sequence at its end.
RECURSIVE Utf8Scan(_)
Utf8Scan(bs) ==
    IF bs = <<>> THEN [ok |-> TRUE, chars |-> <<>>, rest |-> <<>>]
    ELSE IF Utf8Need(Head(bs)) = -1 THEN Utf8Error
    ELSE IF Utf8Need(Head(bs)) = 0
    THEN LET r == Utf8Scan(Tail(bs))
         IN  IF r.ok THEN [r EXCEPT !.chars = <<Head(bs)>> \o @] ELSE Utf8Error
    ELSE IF Len(bs) = 1 THEN [ok |-> TRUE, chars |-> <<>>, rest |-> bs]
    ELSE IF ~Utf8IsCont(bs[2]) THEN Utf8Error
    ELSE LET r == Utf8Scan(SubSeq(bs, 3, Len(bs)))
         IN  IF r.ok THEN [r EXCEPT !.chars = <<(bs[1] - 192) * 64 + (bs[2] - 128)>> \o @]
             ELSE Utf8Error

\* frame.data.decode('utf-8'): UnicodeDecodeError (ok false) or the str.
Utf8Decode(bs) ==
    LET r == Utf8Scan(bs)
    IN  IF r.ok /\ r.rest = <<>> THEN [ok |-> TRUE, chars |-> r.chars]
        ELSE [ok |-> FALSE, chars |-> <<>>]

\* decoder.decode(frame.data, frame.fin) of the incremental decoder whose
\* buffer holds pend: UnicodeDecodeError, or the str and the new buffer.
\* (_NoBuffer: a decoder that forgets the bytes it could not decode yet.)
DecoderDecode_NoBuffer(pend, bs, final) ==
    LET r == Utf8Scan(bs)
    IN  IF r.ok /\ (final => r.rest = <<>>)
        THEN [ok |-> TRUE, chars |-> r.chars, pend |-> <<>>]
        ELSE [ok |-> FALSE, chars |-> <<>>, pend |-> <<>>]
DecoderDecode(pend, bs, final) ==
    LET r == Utf8Scan(pend \o bs)
    IN  IF r.ok /\ (final => r.rest = <<>>)
        THEN [ok |-> TRUE, chars |-> r.chars, pend |-> r.rest]
        ELSE [ok |-> FALSE, chars |-> <<>>, pend |-> <<>>]

(***************************************************************************)
(* The queue of received messages.                                         *)
(***************************************************************************)
\* A waiting receive(): its caller and its future.
Getter(u) == [id |-> u, st |-> "pending", msg |-> NoMessage, code |-> 0]

PendingGetters(g) == {i \in 1..Len(g) : g[i].st = "pending"}

\* Appending to a queue of capacity cap (0: no limit): a full queue loses
\* its oldest element.
\* (_DropNewest: a full queue refuses the new element.)
QuePut_DropNewest(q, m, cap) == IF cap # 0 /\ Len(q) >= cap THEN q ELSE Append(q, m)
QuePut(q, m, cap) ==
    LET q2 == Append(q, m)
    IN  IF cap # 0 /\ Len(q2) > cap THEN Tail(q2) ELSE q2

\* AsyncQue(loop=loop, maxlen=max_queue): the capacity of .messages.
\* (_Unbounded: a queue made without maxlen.)
QueMaxlen_Unbounded(mq) == 0
QueMaxlen(mq) == mq

\* messages.set_result(message): the oldest waiting receive() gets it, or it
\* is queued (lg: the history so far).
SetResult(m, lg) ==
    IF PendingGetters(getters) # {}
    THEN /\ getters' = [getters EXCEPT ![Min(PendingGetters(getters))] =
                            [@ EXCEPT !.st = "result", !.msg = m]]
         /\ log' = [lg EXCEPT !.arrived = Append(@, m), !.delivered = Append(@, m)]
         /\ UNCHANGED messages
    ELSE /\ messages' = QuePut(messages, m, QueMaxlen(max_queue))
         /\ log' = [lg EXCEPT !.arrived = Append(@, m)]
         /\ UNCHANGED getters

\* messages.set_exception(exception): every waiting receive() fails with it.
SetException(g, code) ==
    [i \in 1..Len(g) |->
        IF g[i].st = "pending" THEN [g[i] EXCEPT !.st = "exception", !.code = code]
        ELSE g[i]]

Tokens(ps) == {ps[i].token : i \in 1..Len(ps)}

\* A frame in the log of what was written: by whom, through which path, and
\* which task was inside the write gate at that moment.
Written(f, t, via, gate) ==
    [op |-> f.op, data |-> f.data, enc |-> f.enc, by |-> t, via |-> via, gate |-> gate]

(***************************************************************************)
(* The extensions.  What extension.encode and extension.decode do to a     *)
(* frame is the extension's own: encode is taken to wrap the frame in a    *)
(* layer that only the decode of the same extension takes off, and that    *)
(* it can take off only when the layer is the outermost.                   *)
(***************************************************************************)
Garbled == <<"?">>

ExtensionEncode(extension, f) == [f EXCEPT !.enc = Append(@, extension.name)]

ExtensionDecode(extension, f) ==
    IF f.enc # <<>> /\ f.enc[Len(f.enc)] = extension.name
    THEN [f EXCEPT !.enc = SubSeq(@, 1, Len(@) - 1)]
    ELSE [f EXCEPT !.enc = Garbled]

\* for extension in extensions: frame = extension.encode(frame)
\* (_Reversed: the extensions taken last to first.)
RECURSIVE Encode_Reversed(_, _)
Encode_Reversed(exts, f) ==
    IF exts = <<>> THEN f
    ELSE Encode_Reversed(SubSeq(exts, 1, Len(exts) - 1), ExtensionEncode(exts[Len(exts)], f))
RECURSIVE Encode(_, _)
Encode(exts, f) ==
    IF exts = <<>> THEN f ELSE Encode(Tail(exts), ExtensionEncode(Head(exts), f))

\* for extension in reversed(extensions): frame = extension.decode(frame)
\* (_InOrder: the extensions taken first to last.)
RECURSIVE Decode_InOrder(_, _)
Decode_InOrder(exts, f) ==
    IF exts = <<>> THEN f ELSE Decode_InOrder(Tail(exts), ExtensionDecode(Head(exts), f))
RECURSIVE Decode(_, _)
Decode(exts, f) ==
    IF exts = <<>> THEN f
    ELSE Decode(SubSeq(exts, 1, Len(exts) - 1), ExtensionDecode(exts[Len(exts)], f))

(***************************************************************************)
(* ensure_open: what it does for the state it finds.  "ok": returns;       *)
(* "wait": awaits close_connection_task, then raises ConnectionClosed;     *)
(* "ConnectionClosed" and "Exception": raises at once.                     *)
(***************************************************************************)
\* (_AllClosed: with CONNECTING handled like CLOSED.)
EnsureOpen_AllClosed(st, ccode, rdDone) ==
    IF st = OPEN THEN (IF rdDone THEN "wait" ELSE "ok")
    ELSE IF st = CLOSING /\ ccode = 0 THEN "wait"
    ELSE "ConnectionClosed"
EnsureOpen(st, ccode, rdDone) ==
    IF st = OPEN THEN (IF rdDone THEN "wait" ELSE "ok")
    ELSE IF st = CLOSED THEN "ConnectionClosed"
    ELSE IF st = CLOSING THEN (IF ccode = 0 THEN "wait" ELSE "ConnectionClosed")
    ELSE "Exception"

(***************************************************************************)
(* write_frame.                                                            *)
(***************************************************************************)
\* if self.state is not _expected_state: raise Exception
WriteFrameStateOk(st, expected) == st = expected

\* async with self._drain_lock: whether the caller has to wait for the gate.
\* (_NoGate: without the lock.)
WriteFrameMustWait_NoGate == FALSE
WriteFrameMustWait == lockHolder # "none" \/ lockQ # <<>>

(***************************************************************************)
(* fail_connection(code): the state it leaves, the CLOSE frame it writes   *)
(* (synchronously, outside the gate), the cancellation of                  *)
(* transfer_data_task and the start of close_connection_task.              *)
(***************************************************************************)
\* (_AnyState: without the test of the state.)
FailSendsClose_AnyState(code, st) == code # 1006
FailSendsClose(code, st) == code # 1006 /\ st = OPEN

\* (_AnyCode: the state changed whatever the code.)
FailState_AnyCode(code, st) == IF st = OPEN THEN CLOSING ELSE st
FailState(code, st) == IF FailSendsClose(code, st) THEN CLOSING ELSE st

FailSent(code, st, t, gate) ==
    IF FailSendsClose(code, st)
    THEN Append(sent, Written(Encode(extensions,
                                     Frame(WS_OP_CLOSE, SerializeClose(code, <<>>))), t,
                              "fail_connection", gate))
    ELSE sent

\* transfer_data_task.cancel(), called by another task: CancelledError is
\* thrown into the read task at the await it is suspended in.
FailCancel(r) ==
    IF r.pc \notin {"none", "done"} /\ r.throw = "none"
    THEN [r EXCEPT !.throw = "cancel"] ELSE r

FailCloseTask(c) == IF c = "none" THEN "start" ELSE c

\* HTTP messages of the opening handshake: the version, the status (0 for a
\* request) and the parsed values of the headers the handshake reads, in
\* order; no values: the header is missing.
HttpMessage(version, status, headers) ==
    [version |-> version, status |-> status, headers |-> headers]
Headers(connection, upgrade, accept, key, version, origin, exts, protocol) ==
    [Connection |-> connection, Upgrade |-> upgrade, Accept |-> accept, Key |-> key,
     Version |-> version, Origin |-> origin, Extensions |-> exts,
     Protocol |-> protocol]
NoHttpMessage ==
    HttpMessage("none", 0, Headers(<<>>, <<>>, <<>>, <<>>, <<>>, <<>>, <<>>, <<>>))

\* What this side brings to the handshake: the client its key and the
\* extensions and subprotocols it offers, the server its allowed origins and
\* the extensions and subprotocols it has.  Empty: None.
Offer(key, origins, exts, subprotocols) ==
    [key |-> key, origins |-> origins, extensions |-> exts,
     subprotocols |-> subprotocols]
NoOffer == Offer("none", {}, <<>>, <<>>)

\* The key of a client and the response that accepts it with nothing more,
\* and the request such a client sends.
PlainKey == "k1"
PlainResponse ==
    HttpMessage("HTTP/1.1", SWITCHING_PROTOCOLS,
                Headers(<<"Upgrade">>, <<"websocket">>, <<<<"accept", PlainKey>>>>,
                        <<>>, <<>>, <<>>, <<>>, <<>>))
PlainRequest ==
    HttpMessage("HTTP/1.1", 0,
                Headers(<<"Upgrade">>, <<"websocket">>, <<>>, <<PlainKey>>, <<"13">>,
                        <<>>, <<>>, <<>>))

(***************************************************************************)
(* WSServer.__new__: the listener serves, no connection is registered and  *)
(* close() was not called.                                                 *)
(***************************************************************************)
\* The transport connections the listener can accept.
Conns == {"c1", "c2"}

\* (tr: "aborted" once lifetime_handler has called transport.close() and
\* transport.abort().)
NoConn ==
    [task |-> "none", state |-> CONNECTING, opened |-> FALSE, close |-> "none",
     tr |-> "open"]

NewServer ==
    /\ server = "serving"
    /\ websockets = {}
    /\ conn = [c \in Conns |-> NoConn]
    /\ closer = [pc |-> "none", closes |-> {}, handlers |-> {}]

(***************************************************************************)
(* The connection object after __init__ and connection_made.               *)
(***************************************************************************)
ConstructWith(msize, mqueue, offer) ==
    /\ is_client \in BOOLEAN
    /\ is_ssl \in BOOLEAN
    /\ max_size = msize
    /\ max_queue = mqueue
    /\ extensions = <<>>
    /\ subprotocol = "none"
    /\ handshake = [offer |-> offer, msg |-> NoHttpMessage, exc |-> "none",
                    status |-> 0]
    /\ state = CONNECTING
    /\ close_code = 0
    /\ close_reason = NoReason
    /\ transfer_data_exc = 0
    /\ clw = FALSE
    /\ pings = <<>>
    /\ waiter = [u \in Users |-> "none"]
    /\ messages = <<>>
    /\ getters = <<>>
    /\ log = [arrived |-> <<>>, delivered |-> <<>>, frames |-> <<>>]
    /\ lockHolder = "none"
    /\ lockQ = <<>>
    /\ transport = [eof |-> FALSE, closed |-> FALSE, aborted |-> FALSE, lost |-> FALSE]
    /\ sent = <<>>
    /\ hs = IF is_client THEN "client" ELSE "request"
    /\ rd = [pc |-> "none", throw |-> "none", frame |-> NoFrame, frag |-> FALSE,
             text |-> FALSE, buf |-> <<>>, dec |-> <<>>, left |-> msize,
             cause |-> "none"]
    /\ cc = "none"
    /\ usr = [u \in Users |->
                [pc |-> "idle", op |-> "none", arg |-> <<>>, res |-> "none", code |-> 0,
                 cs |-> CONNECTING, frame |-> NoFrame, msg |-> NoMessage]]
    /\ nReads = 0
    /\ NewServer

\* A connection that offers nothing to negotiate.
Construct(msize, mqueue) == ConstructWith(msize, mqueue, NoOffer)

\* A connection made with the default limits.
Init == Construct(DefaultMaxSize, 0)

(***************************************************************************)
(* The opening handshake.                                                  *)
(***************************************************************************)
\* connection_open: marks the websocket OPEN and starts both tasks.
\* (_Guarded: only a CONNECTING websocket is marked.)
ConnectionOpenState_Guarded(st) == IF st = CONNECTING THEN OPEN ELSE st
ConnectionOpenState(st) == OPEN

ConnectionOpen ==
    /\ state' = ConnectionOpenState(state)
    /\ rd' = [rd EXCEPT !.pc = "read"]
    /\ cc' = "start"
    /\ hs' = "opened"

\* str.lower(), on the header values of the model.
Lower(s) ==
    CASE s = "Upgrade" -> "upgrade"
      [] s = "WebSocket" -> "websocket"
      [] OTHER -> s

\* any(value.lower() == 'upgrade' for value in connections)
AnyUpgrade(connections) ==
    \E i \in 1..Len(connections) : Lower(connections[i]) = "upgrade"

\* if len(upgrade) != 1 and upgrade[0].lower() != 'websocket': raise ...
\* A list of one value ends the condition at its first operand; any other
\* list has upgrade[0] evaluated, which raises IndexError on an empty one.
\* (_Or: the condition with `or`.)
UpgradeCheck_Or(upgrade) ==
    IF Len(upgrade) # 1 THEN "mismatch"
    ELSE IF Lower(upgrade[1]) # "websocket" THEN "mismatch"
    ELSE "ok"
UpgradeCheck(upgrade) ==
    IF Len(upgrade) = 1 THEN "ok"
    ELSE IF Len(upgrade) = 0 THEN "IndexError"
    ELSE IF Lower(upgrade[1]) # "websocket" THEN "mismatch"
    ELSE "ok"

\* b64encode(sha1((key + WS_KEY).encode()).digest()).decode(): a value of its
\* own for every key.
AcceptKey(key) == <<"accept", key>>

\* The Sec-WebSocket-Accept check of the client: exactly one value, the
\* expected one.  (_AnyValue: the value is not compared.)
AcceptCheck_AnyValue(received_keys, sec_key) == Len(received_keys) = 1
AcceptCheck(received_keys, sec_key) ==
    /\ Len(received_keys) # 0
    /\ ~(Len(received_keys) > 1)
    /\ received_keys[1] = AcceptKey(sec_key)

\* extension.are_valid_params(params, accepted_extensions), of the extension
\* objects of the model: each accepts a set of parameters.
AreValidParams(extension, params, accepted_extensions) == params \in extension.valid

\* The inner loop of the negotiation: the index of the first available
\* extension whose name is the selected one and which accepts the parameters,
\* 0 when the loop ends without a break.
\* (_ByName: the parameters are not asked about.)
MatchExtension_ByName(available, name, params, accepted) ==
    IF \E i \in 1..Len(available) : available[i].name = name
    THEN CHOOSE i \in 1..Len(available) :
            /\ available[i].name = name
            /\ \A j \in 1..(i - 1) : available[j].name # name
    ELSE 0
MatchExtension(available, name, params, accepted) ==
    LET Match(i) == /\ available[i].name = name
                    /\ AreValidParams(available[i], params, accepted)
    IN  IF \E i \in 1..Len(available) : Match(i)
        THEN CHOOSE i \in 1..Len(available) :
                Match(i) /\ \A j \in 1..(i - 1) : ~Match(j)
        ELSE 0

\* The outer loop: every (name, params) of the header in turn; the result is
\* the list accepted, and whether the loop ended without raising.
RECURSIVE AcceptExtensions(_, _, _)
AcceptExtensions(available, parsed, accepted) ==
    IF parsed = <<>> THEN [ok |-> TRUE, list |-> accepted]
    ELSE LET i == MatchExtension(available, parsed[1][1], parsed[1][2], accepted)
         IN  IF i = 0 THEN [ok |-> FALSE, list |-> accepted]
             ELSE AcceptExtensions(available, Tail(parsed),
                                   Append(accepted, available[i]))

\* subprotocol in available_subprotocols
\* (_Any: every subprotocol is taken.)
SubprotocolOffered_Any(sp, available) == TRUE
SubprotocolOffered(sp, available) ==
    \E i \in 1..Len(available) : available[i] = sp

\* What a handshake ends with: the exception raised ("none": success), the
\* status answered (0: nothing written) and what was negotiated.
HandshakeResult(exc, status, exts, sp) ==
    [exc |-> exc, status |-> status, extensions |-> exts, subprotocol |-> sp]
Raise(exc) == HandshakeResult(exc, 0, <<>>, "none")

\* The checks WSClient.__new__ makes on the response, in their order.
\* An empty list of offered extensions or subprotocols stands for None as
\* well: both refuse every selection.
ClientResponseCheck(offer, response) ==
    LET h == response.headers
        ex == AcceptExtensions(offer.extensions, h.Extensions, <<>>)
    IN  IF response.version # "HTTP/1.1" THEN Raise("ValueError")
        ELSE IF response.status # 101 THEN Raise("InvalidHandshake")
        ELSE IF ~AnyUpgrade(h.Connection) THEN Raise("InvalidHandshake")
        ELSE IF UpgradeCheck(h.Upgrade) = "IndexError" THEN Raise("IndexError")
        ELSE IF UpgradeCheck(h.Upgrade) = "mismatch" THEN Raise("InvalidHandshake")
        ELSE IF ~AcceptCheck(h.Accept, offer.key) THEN Raise("InvalidHandshake")
        ELSE IF h.Extensions # <<>> /\ offer.extensions = <<>>
            THEN Raise("InvalidHandshake")
        ELSE IF ~ex.ok THEN Raise("InvalidHandshake")
        ELSE IF h.Protocol # <<>> /\ offer.subprotocols = <<>>
            THEN Raise("InvalidHandshake")
        ELSE IF Len(h.Protocol) > 1 THEN Raise("InvalidHandshake")
        ELSE IF h.Protocol # <<>> /\ ~SubprotocolOffered(h.Protocol[1], offer.subprotocols)
            THEN Raise("InvalidHandshake")
        ELSE HandshakeResult("none", 0, ex.list,
                             IF h.Protocol = <<>> THEN "none" ELSE h.Protocol[1])

\* WSClient.__new__: the request is sent with a new key and what the caller
\* offers, and the response checked; only after the last check the object is
\* created, takes the transport over and is opened.
ClientHandshake(key, offer, response) ==
    LET o == [offer EXCEPT !.key = key]
        r == ClientResponseCheck(o, response)
    IN  /\ hs = "client"
        /\ handshake' = [offer |-> o, msg |-> response, exc |-> r.exc,
                         status |-> r.status]
        /\ IF r.exc = "none"
           THEN /\ extensions' = r.extensions
                /\ subprotocol' = r.subprotocol
                /\ ConnectionOpen
           ELSE /\ hs' = "failed"
                /\ UNCHANGED <<extensions, subprotocol, state, rd, cc>>
        /\ UNCHANGED <<confVars, regVars, queVars, close_code, close_reason, transfer_data_exc, clw>>
        /\ UNCHANGED <<dataVars, ioVars, usr, cntVars>>

\* The handshake of a caller that offers nothing, with the response of a
\* server that accepts.
ClientConnect == ClientHandshake(PlainKey, NoOffer, PlainResponse)

\* The status the failure path of WSServerProtocol.handshake answers with.
HandshakeStatus(exc) ==
    CASE exc = "AbortHandshake" -> EarlyStatus
      [] exc = "ServiceUnavailable" -> SERVICE_UNAVAILABLE
      [] exc = "InvalidOrigin" -> FORBIDDEN
      [] exc = "InvalidUpgrade" -> UPGRADE_REQUIRED
      [] exc = "InvalidHandshake" -> BAD_REQUEST
      [] OTHER -> INTERNAL_SERVER_ERROR

Fail(exc) == HandshakeResult(exc, HandshakeStatus(exc), <<>>, "none")

\* len(b64decode(key.encode(), validate=True)), -1 when it raises
\* BinasciiError, of the keys of the model.
B64DecodedLen(key) ==
    CASE key = "k1" -> 16
      [] key = "k2" -> 16
      [] key = "short" -> 15
      [] OTHER -> -1

\* The Sec-WebSocket-Key check of the server: exactly one value, which
\* decodes to 16 bytes.  (_NoLength: the decoded length is not looked at.)
KeyCheck_NoLength(received_keys) ==
    /\ Len(received_keys) = 1
    /\ B64DecodedLen(received_keys[1]) # -1
KeyCheck(received_keys) ==
    /\ Len(received_keys) # 0
    /\ ~(Len(received_keys) > 1)
    /\ B64DecodedLen(received_keys[1]) # -1
    /\ ~(B64DecodedLen(received_keys[1]) # 16)

\* The Sec-WebSocket-Version check: exactly one value, '13'.
VersionCheck(sw_version) ==
    /\ Len(sw_version) # 0
    /\ ~(Len(sw_version) > 1)
    /\ sw_version[1] = "13"

\* The Origin check, made when the server has a list of origins (an empty
\* set stands for None).  (_FirstValue: further Origin headers are ignored.)
OriginCheck_FirstValue(origins, origin_headers) ==
    \/ origins = {}
    \/ /\ Len(origin_headers) >= 1
       /\ origin_headers[1] \in origins
OriginCheck(origins, origin_headers) ==
    \/ origins = {}
    \/ /\ Len(origin_headers) = 1
       /\ origin_headers[1] \in origins

\* list.index
RECURSIVE Index(_, _)
Index(list, x) == IF list[1] = x THEN 0 ELSE 1 + Index(Tail(list), x)

\* The sort key of the default subprotocol selection.
\* (_ClientOnly: the index in the client's list alone.)
Priority_ClientOnly(parsed, available, sp) == Index(parsed, sp)
Priority(parsed, available, sp) == Index(parsed, sp) + Index(available, sp)

\* sorted(subprotocols, key = ...) of the subprotocols in the order the set
\* yields them: a stable sort.
RECURSIVE SortedSubprotocols(_, _, _)
SortedSubprotocols(order, parsed, available) ==
    IF order = <<>> THEN <<>>
    ELSE LET rest == SortedSubprotocols(Tail(order), parsed, available)
             key == Priority(parsed, available, Head(order))
         IN  SelectSeq(rest, LAMBDA x : Priority(parsed, available, x) < key)
             \o <<Head(order)>>
             \o SelectSeq(rest, LAMBDA x : Priority(parsed, available, x) >= key)

\* The default subprotocol selection: the subprotocols of the request that
\* the server has, as a set, sorted, of which the first is taken; a set
\* yields its elements in any order.  "none" when nothing is common.
SelectSubprotocol(parsed, available) ==
    LET common == {parsed[i] : i \in 1..Len(parsed)} \cap
                  {available[i] : i \in 1..Len(available)}
        orders == {o \in [1..Cardinality(common) -> common] :
                      \A i, j \in DOMAIN o : o[i] = o[j] => i = j}
    IN  IF common = {} THEN {"none"}
        ELSE {SortedSubprotocols(o, parsed, available)[1] : o \in orders}

\* The checks WSServerProtocol.handshake makes on the request once the
\* request processer let it through, in their order.  sp is the subprotocol
\* selected.
ServerRequestCheck(offer, request, sp) ==
    LET h == request.headers
        ex == AcceptExtensions(offer.extensions, h.Extensions, <<>>)
    IN  IF ~AnyUpgrade(h.Connection) THEN Fail("InvalidUpgrade")
        ELSE IF UpgradeCheck(h.Upgrade) = "IndexError" THEN Fail("IndexError")
        ELSE IF UpgradeCheck(h.Upgrade) = "mismatch" THEN Fail("InvalidUpgrade")
        ELSE IF ~KeyCheck(h.Key) THEN Fail("InvalidHandshake")
        ELSE IF ~VersionCheck(h.Version) THEN Fail("InvalidHandshake")
        ELSE IF ~OriginCheck(offer.origins, h.Origin) THEN Fail("InvalidOrigin")
        ELSE IF offer.extensions # <<>> /\ ~ex.ok THEN Fail("InvalidHandshake")
        ELSE HandshakeResult("none", SWITCHING_PROTOCOLS,
                             IF offer.extensions # <<>> THEN ex.list ELSE <<>>,
                             IF offer.subprotocols # <<>> /\ h.Protocol # <<>>
                             THEN sp ELSE "none")

\* The failure path of WSServerProtocol.handshake: the error response is
\* written, the connection failed, and connection loss awaited.
\* (_ResponseOnly: without the call of fail_connection.)
HandshakeFail_ResponseOnly(request, r) ==
    /\ handshake' = [handshake EXCEPT !.msg = request, !.exc = r.exc,
                                      !.status = r.status]
    /\ hs' = IF clw THEN "failed" ELSE "failing"
    /\ UNCHANGED <<extensions, subprotocol, rd, state, cc>>
HandshakeFail(request, r) ==
    /\ handshake' = [handshake EXCEPT !.msg = request, !.exc = r.exc,
                                      !.status = r.status]
    /\ rd' = FailCancel(rd)
    /\ state' = FailState(1006, state)
    /\ cc' = FailCloseTask(cc)
    /\ hs' = IF clw THEN "failed" ELSE "failing"
    /\ UNCHANGED <<extensions, subprotocol>>

\* The end of the try block: the negotiated values are stored, the 101
\* response written and the connection opened.
HandshakeAccept(request, r) ==
    /\ handshake' = [handshake EXCEPT !.msg = request, !.exc = r.exc,
                                      !.status = r.status]
    /\ extensions' = r.extensions
    /\ subprotocol' = r.subprotocol
    /\ ConnectionOpen

\* The header checks and the negotiation, up to the end of handshake.
HandshakeChecks(request) ==
    \E sp \in SelectSubprotocol(request.headers.Protocol, handshake.offer.subprotocols) :
        LET r == ServerRequestCheck(handshake.offer, request, sp)
        IN  IF r.exc = "none"
            THEN HandshakeAccept(request, r)
            ELSE HandshakeFail(request, r)

\* WSServerProtocol.handshake, from the request read to the first await after
\* it.  "neterr": the read raised ConnectionError; "closing": the server is
\* not serving any more; "early": the request processer gives an early
\* response; "async": it gives a coroutine, which is awaited; "none": there is
\* no request processer, or it gives None, and the request is checked.
ServerRequest(processed, request) ==
    /\ hs = "request"
    /\ \/ /\ processed = "neterr" /\ transport.lost
          /\ request = NoHttpMessage
          /\ hs' = "failed"
          /\ handshake' = [handshake EXCEPT !.exc = "ConnectionError"]
          /\ UNCHANGED <<extensions, subprotocol, state, rd, cc>>
       \/ /\ processed = "closing"
          /\ HandshakeFail(request, Fail("ServiceUnavailable"))
       \/ /\ processed = "early"
          /\ HandshakeFail(request, Fail("AbortHandshake"))
       \/ /\ processed = "async" /\ ~transport.lost
          /\ hs' = "processer"
          /\ handshake' = [handshake EXCEPT !.msg = request]
          /\ UNCHANGED <<extensions, subprotocol, state, rd, cc>>
       \/ /\ processed = "none"
          /\ HandshakeChecks(request)
          /\ hs' = "opened" => ~transport.lost
    /\ UNCHANGED <<confVars, regVars, queVars, close_code, close_reason, transfer_data_exc, clw>>
    /\ UNCHANGED <<dataVars, ioVars, usr, cntVars>>

\* The request_processer coroutine returned: an early response
\* (AbortHandshake), or None, and the request is checked.
ServerProcesser(early) ==
    /\ hs = "processer"
    /\ IF early
       THEN HandshakeFail(handshake.msg, Fail("AbortHandshake"))
       ELSE HandshakeChecks(handshake.msg)
    /\ UNCHANGED <<confVars, regVars, queVars, close_code, close_reason, transfer_data_exc, clw>>
    /\ UNCHANGED <<dataVars, ioVars, usr, cntVars>>

\* wait_for_connection_lost at the end of the failure path returns (the
\* connection was lost, or close_timeout passed).
ServerFailWait ==
    /\ hs = "failing"
    /\ hs' = "failed"
    /\ UNCHANGED <<connVars, queVars, dataVars, ioVars, rd, cc, usr, cntVars>>

(***************************************************************************)
(* The transport's callback.                                               *)
(***************************************************************************)
\* connection_lost: the transport is gone (closed by the peer, by
\* transport.close() or by transport.abort()).
\* (_Always: 1006 whatever was recorded.)
ConnectionLostCode_Always(ccode) == 1006
ConnectionLostCode(ccode) == IF ccode = 0 THEN 1006 ELSE ccode

ConnectionLost ==
    /\ ~transport.lost
    /\ hs # "client"
    /\ transport' = [transport EXCEPT !.lost = TRUE]
    /\ state' = CLOSED
    /\ close_code' = ConnectionLostCode(close_code)
    /\ clw' = TRUE
    /\ UNCHANGED <<confVars, regVars, hsVars, queVars, close_reason, transfer_data_exc>>
    /\ UNCHANGED <<dataVars, lockHolder, lockQ, sent, taskVars, cntVars>>


(***************************************************************************)
(* The callers of send, ping, pong and close.                              *)
(***************************************************************************)
\* Each caller calls one operation; the callers are interchangeable, and
\* "u1" is the name of the one that calls first.  A WSClient exists once its
\* handshake is over; a WSServerProtocol is registered before it.
CanCall(u) ==
    /\ usr[u].pc = "idle"
    /\ u = "u2" => usr["u1"].pc # "idle"
    /\ hs # "client"

\* The record of a call that starts now, in the state the connection is in.
NewCall(op, arg) ==
    [pc |-> "idle", op |-> op, arg |-> arg, res |-> "none", code |-> 0,
     cs |-> state, frame |-> NoFrame, msg |-> NoMessage]

\* The call ends: it returns ("ok") or raises.
Finish(r, res, ccode) ==
    [r EXCEPT !.pc = "done", !.res = res,
              !.code = IF res = "ConnectionClosed" THEN ccode ELSE 0]

\* write_frame up to its first await: the frame is written and drain()
\* awaited inside the gate, or the gate is awaited.
BeginWrite(u, r, f) ==
    IF WriteFrameMustWait
    THEN /\ usr' = [usr EXCEPT ![u] = [r EXCEPT !.pc = "lock", !.frame = f]]
         /\ lockQ' = Append(lockQ, u)
         /\ UNCHANGED <<lockHolder, sent>>
    ELSE /\ usr' = [usr EXCEPT ![u] = [r EXCEPT !.pc = "drain", !.frame = f]]
         /\ lockHolder' = u
         /\ sent' = Append(sent, Written(Encode(extensions, f), u, "write_frame", u))
         /\ UNCHANGED lockQ

\* ensure_open, then write_frame(opcode, data): send and pong.
CallWrite(u, op, f) ==
    LET o == EnsureOpen(state, close_code, rd.pc = "done")
        r == NewCall(op, <<>>)
    IN  /\ CanCall(u)
        /\ IF o = "ok"
           THEN IF WriteFrameStateOk(state, OPEN)
                THEN BeginWrite(u, r, f)
                ELSE /\ usr' = [usr EXCEPT ![u] = Finish(r, "Exception", 0)]
                     /\ UNCHANGED <<lockHolder, lockQ, sent>>
           ELSE /\ usr' = [usr EXCEPT ![u] =
                            IF o = "wait" THEN [r EXCEPT !.pc = "eshield"]
                            ELSE Finish(r, o, close_code)]
                /\ UNCHANGED <<lockHolder, lockQ, sent>>
        /\ UNCHANGED <<connVars, queVars, dataVars, transport, hs, rd, cc, nReads>>

Send(u) == CallWrite(u, "send", Frame(WS_OP_TEXT, <<1>>))

Pong(u) == CallWrite(u, "pong", Frame(WS_OP_PONG, <<1>>))

\* ping: the payload that is registered.  A payload that already awaits a
\* pong is replaced by urandom(4) until a free one is drawn.
\* (_NoReroll: without the replacement.)
PingToken_NoReroll(data, ps) == IF data = NoData THEN RandTokens ELSE {data}
PingToken(data, ps) ==
    LET first == IF data = NoData THEN RandTokens ELSE {data}
    IN  (first \ Tokens(ps)) \cup
        (IF first \cap Tokens(ps) # {} THEN RandTokens \ Tokens(ps) ELSE {})

\* pings[data] = waiter, on an ordered dict: a new key goes to the end, an
\* existing key keeps its place and gets the new waiter.
PingRegister(ps, tok, id) ==
    IF tok \in Tokens(ps)
    THEN [i \in 1..Len(ps) |-> IF ps[i].token = tok THEN [token |-> tok, id |-> id] ELSE ps[i]]
    ELSE Append(ps, [token |-> tok, id |-> id])

Ping(u, data) ==
    LET o == EnsureOpen(state, close_code, rd.pc = "done")
        r == NewCall("ping", data)
    IN  /\ CanCall(u)
        /\ IF o = "ok"
           THEN \E tok \in PingToken(data, pings) :
                    /\ pings' = PingRegister(pings, tok, u)
                    /\ waiter' = [waiter EXCEPT ![u] = "pending"]
                    /\ BeginWrite(u, r, Frame(WS_OP_PING, tok))
           ELSE /\ usr' = [usr EXCEPT ![u] =
                            IF o = "wait" THEN [r EXCEPT !.pc = "eshield"]
                            ELSE Finish(r, o, close_code)]
                /\ UNCHANGED <<pings, waiter, lockHolder, lockQ, sent>>
        /\ UNCHANGED <<connVars, queVars, messages, transport, hs, rd, cc, nReads>>

\* ping, after its frame was written: the waiter got its result, or was
\* cancelled by close_connection.
PingWaitDone(u) ==
    /\ usr[u].pc = "pingwait"
    /\ waiter[u] # "pending"
    /\ usr' = [usr EXCEPT ![u] =
                 Finish(@, IF waiter[u] = "resolved" THEN "ok" ELSE "Cancelled", 0)]
    /\ UNCHANGED <<connVars, queVars, dataVars, ioVars, hs, rd, cc, cntVars>>

\* What a caller's write_frame goes on to when it returns normally.
AfterWrite(r) ==
    IF r.op = "ping" THEN [r EXCEPT !.pc = "pingwait"]
    ELSE IF r.op = "close" THEN [r EXCEPT !.pc = "c_rd"]
    ELSE Finish(r, "ok", 0)

\* The gate is free and this caller is the oldest waiting for it.
LockAcquire(u) ==
    /\ usr[u].pc = "lock"
    /\ lockHolder = "none"
    /\ lockQ # <<>> /\ Head(lockQ) = u
    /\ lockQ' = Tail(lockQ)
    /\ lockHolder' = u
    /\ sent' = Append(sent, Written(Encode(extensions, usr[u].frame), u, "write_frame", u))
    /\ usr' = [usr EXCEPT ![u].pc = "drain"]
    /\ UNCHANGED <<connVars, queVars, dataVars, transport, hs, rd, cc, cntVars>>

\* drain() returns: the gate is left.
DrainDone(u) ==
    /\ usr[u].pc = "drain"
    /\ lockHolder' = "none"
    /\ usr' = [usr EXCEPT ![u] = AfterWrite(@)]
    /\ UNCHANGED <<connVars, queVars, dataVars, lockQ, transport, sent, hs, rd, cc, cntVars>>

\* drain() raises ConnectionError: fail_connection(), then ensure_open.
DrainError(u) ==
    LET o == EnsureOpen(state, close_code, rd.pc = "done")
    IN  /\ usr[u].pc = "drain"
        /\ transport.lost
        /\ rd' = FailCancel(rd)
        /\ cc' = FailCloseTask(cc)
        /\ IF o = "wait"
           THEN /\ usr' = [usr EXCEPT ![u].pc = "wshield"]
                /\ UNCHANGED lockHolder
           ELSE /\ usr' = [usr EXCEPT ![u] =
                            IF o = "ok" THEN AfterWrite(@) ELSE Finish(@, o, close_code)]
                /\ lockHolder' = "none"
        /\ UNCHANGED <<connVars, queVars, dataVars, lockQ, transport, sent, hs, cntVars>>

\* ensure_open's wait for close_connection_task ends: ConnectionClosed.
ShieldDone(u) ==
    /\ usr[u].pc \in {"eshield", "wshield"}
    /\ cc = "done"
    /\ lockHolder' = IF usr[u].pc = "wshield" THEN "none" ELSE lockHolder
    /\ usr' = [usr EXCEPT ![u] = Finish(@, "ConnectionClosed", close_code)]
    /\ UNCHANGED <<connVars, queVars, dataVars, lockQ, transport, sent, hs, rd, cc, cntVars>>


(***************************************************************************)
(* close(code, reason).                                                    *)
(***************************************************************************)
\* close up to its first await: _serialize_close raises, or the task of
\* write_close_frame is created and awaited under close_timeout.
Close(u, code) ==
    LET r == NewCall("close", <<code>>)
    IN  /\ CanCall(u)
        /\ usr' = [usr EXCEPT ![u] =
                     IF ValidCloseCode(code)
                     THEN [r EXCEPT !.pc = "c_task",
                                    !.frame = Frame(WS_OP_CLOSE, SerializeClose(code, <<>>))]
                     ELSE Finish(r, "ProtocolError", 0)]
        /\ UNCHANGED <<connVars, queVars, dataVars, ioVars, hs, rd, cc, nReads>>

\* What close goes on to once the write_close_frame task has ended without
\* raising: it awaits transfer_data_task (None before the connection opened).
AfterCloseWrite(r) ==
    IF rd.pc = "none" THEN Finish(r, "AttributeError", 0) ELSE [r EXCEPT !.pc = "c_rd"]

\* The first step of the write_close_frame task.
CloseTaskStep(u) ==
    /\ usr[u].pc = "c_task"
    /\ IF state = OPEN
       THEN /\ state' = CLOSING
            /\ IF WriteFrameStateOk(CLOSING, CLOSING)
               THEN BeginWrite(u, usr[u], usr[u].frame)
               ELSE /\ usr' = [usr EXCEPT ![u] = Finish(@, "Exception", 0)]
                    /\ UNCHANGED <<lockHolder, lockQ, sent>>
       ELSE /\ usr' = [usr EXCEPT ![u] = AfterCloseWrite(@)]
            /\ UNCHANGED <<state, lockHolder, lockQ, sent>>
    /\ UNCHANGED <<confVars, regVars, hsVars, queVars, close_code, close_reason, transfer_data_exc, clw>>
    /\ UNCHANGED <<dataVars, transport, hs, rd, cc, cntVars>>

\* close_timeout passes while the write_close_frame task waits for the gate
\* or for drain(): TimeoutError ends the task, and close fails the connection.
CloseWriteTimeout(u) ==
    /\ usr[u].op = "close"
    /\ usr[u].pc \in {"lock", "drain", "wshield"}
    /\ lockQ' = Remove(lockQ, u)
    /\ lockHolder' = IF usr[u].pc = "lock" THEN lockHolder ELSE "none"
    /\ rd' = FailCancel(rd)
    /\ cc' = FailCloseTask(cc)
    /\ usr' = [usr EXCEPT ![u].pc = "c_rd"]
    /\ UNCHANGED <<connVars, queVars, dataVars, transport, sent, hs, cntVars>>

\* close_timeout passes while close awaits transfer_data_task: TimeoutError
\* is thrown into the read task.
CloseReadTimeout(u) ==
    /\ usr[u].pc = "c_rd"
    /\ rd.pc # "done"
    /\ rd.throw = "none"
    /\ rd' = [rd EXCEPT !.throw = "timeout"]
    /\ UNCHANGED <<connVars, queVars, dataVars, ioVars, hs, cc, usr, cntVars>>

\* transfer_data_task is done: close goes on to await close_connection_task.
CloseRdDone(u) ==
    /\ usr[u].pc = "c_rd"
    /\ rd.pc = "done"
    /\ usr' = [usr EXCEPT ![u].pc = "c_cc"]
    /\ UNCHANGED <<connVars, queVars, dataVars, ioVars, hs, rd, cc, cntVars>>

\* close_connection_task is done: close returns.
CloseCcDone(u) ==
    /\ usr[u].pc = "c_cc"
    /\ cc = "done"
    /\ usr' = [usr EXCEPT ![u] = Finish(@, "ok", 0)]
    /\ UNCHANGED <<connVars, queVars, dataVars, ioVars, hs, rd, cc, cntVars>>

(***************************************************************************)
(* receive().                                                              *)
(***************************************************************************)
\* A caller of receive() may call it again when its call has ended.
CanRecv(u) ==
    IF usr[u].pc = "idle" THEN CanCall(u) ELSE usr[u].op = "recv" /\ usr[u].pc = "done"

\* messages.result(): the oldest queued message; with none queued, the stored
\* exception; with none stored, a future to wait for.
Recv(u) ==
    LET r == NewCall("recv", <<>>)
    IN  /\ CanRecv(u)
        /\ IF messages # <<>>
           THEN /\ usr' = [usr EXCEPT ![u] = Finish([r EXCEPT !.msg = Head(messages)], "ok", 0)]
                /\ messages' = Tail(messages)
                /\ log' = [log EXCEPT !.delivered = Append(@, Head(messages))]
                /\ UNCHANGED getters
           ELSE IF transfer_data_exc # 0
           THEN /\ usr' = [usr EXCEPT ![u] = Finish(r, "ConnectionClosed", transfer_data_exc)]
                /\ UNCHANGED <<messages, log, getters>>
           ELSE /\ usr' = [usr EXCEPT ![u] = [r EXCEPT !.pc = "recvwait"]]
                /\ getters' = Append(getters, Getter(u))
                /\ UNCHANGED <<messages, log>>
        /\ UNCHANGED <<connVars, pings, waiter, ioVars, hs, rd, cc, cntVars>>

\* The future of a waiting receive() is done: the call returns the message
\* or raises the exception.
RecvDone(u) ==
    /\ usr[u].pc = "recvwait"
    /\ \E i \in 1..Len(getters) :
           /\ getters[i].id = u
           /\ getters[i].st # "pending"
           /\ usr' = [usr EXCEPT ![u] =
                        IF getters[i].st = "result"
                        THEN Finish([@ EXCEPT !.msg = getters[i].msg], "ok", 0)
                        ELSE Finish(@, "ConnectionClosed", getters[i].code)]
           /\ getters' = SelectSeq(getters, LAMBDA g : g.id # u)
    /\ UNCHANGED <<connVars, dataVars, log, ioVars, hs, rd, cc, cntVars>>

(***************************************************************************)
(* close_connection.                                                       *)
(***************************************************************************)
\* for ping in self.pings.values(): ping.cancel()
CancelPings(w) ==
    [i \in DOMAIN w |->
        IF w[i] = "pending" /\ (\E j \in 1..Len(pings) : pings[j].id = i)
        THEN "cancelled" ELSE w[i]]

CanWriteEof == ~is_ssl

\* The finally clause, up to its first wait (l: connection_lost_waiter done).
\* (_AlwaysClose: without the early return of a connection without TLS.)
CloseConnFinally_AlwaysClose(tr, l) ==
    LET tr2 == [tr EXCEPT !.closed = TRUE]
    IN  IF l THEN [pc |-> "done", tr |-> tr2] ELSE [pc |-> "wait_close", tr |-> tr2]
CloseConnFinally(tr, l) ==
    IF l /\ ~is_ssl THEN [pc |-> "done", tr |-> tr]
    ELSE LET tr2 == [tr EXCEPT !.closed = TRUE]
         IN  IF l THEN [pc |-> "done", tr |-> tr2] ELSE [pc |-> "wait_close", tr |-> tr2]

\* if self.can_write_eof(): write_eof and wait for the connection loss.
CloseConnEof(tr, l) ==
    IF CanWriteEof
    THEN LET tr2 == [tr EXCEPT !.eof = TRUE]
         IN  IF l THEN CloseConnFinally(tr2, l) ELSE [pc |-> "wait_eof", tr |-> tr2]
    ELSE CloseConnFinally(tr, l)

\* A client waits for the server to close the connection first.
CloseConnClient(tr, l) ==
    IF is_client /\ rd.pc # "none"
    THEN IF l THEN CloseConnFinally(tr, l) ELSE [pc |-> "wait_client", tr |-> tr]
    ELSE CloseConnEof(tr, l)

\* From the end of the wait for transfer_data_task on.
CloseConnAfterRead ==
    LET n == CloseConnClient(transport, clw)
    IN  /\ waiter' = CancelPings(waiter)
        /\ cc' = n.pc
        /\ transport' = n.tr

CcStart ==
    /\ cc = "start"
    /\ IF rd.pc \notin {"none", "done"}
       THEN /\ cc' = "wait_rd"
            /\ UNCHANGED <<waiter, transport>>
       ELSE CloseConnAfterRead
    /\ UNCHANGED <<connVars, queVars, pings, messages, lockHolder, lockQ, sent, hs, rd, usr, cntVars>>

CcRdDone ==
    /\ cc = "wait_rd"
    /\ rd.pc = "done"
    /\ CloseConnAfterRead
    /\ UNCHANGED <<connVars, queVars, pings, messages, lockHolder, lockQ, sent, hs, rd, usr, cntVars>>

\* wait_for_connection_lost returns when the connection is lost (l) or
\* close_timeout has passed, with connection_lost_waiter.done().
\* (_NoTimeout: without future_or_timeout.)
WaitForConnectionLostEnds_NoTimeout(l) == l
WaitForConnectionLostEnds(l) == TRUE

CcWaitClient ==
    LET n == IF clw THEN CloseConnFinally(transport, clw) ELSE CloseConnEof(transport, clw)
    IN  /\ cc = "wait_client"
        /\ WaitForConnectionLostEnds(clw)
        /\ cc' = n.pc
        /\ transport' = n.tr
        /\ UNCHANGED <<connVars, queVars, dataVars, lockHolder, lockQ, sent, hs, rd, usr, cntVars>>

CcWaitEof ==
    LET n == CloseConnFinally(transport, clw)
    IN  /\ cc = "wait_eof"
        /\ WaitForConnectionLostEnds(clw)
        /\ cc' = n.pc
        /\ transport' = n.tr
        /\ UNCHANGED <<connVars, queVars, dataVars, lockHolder, lockQ, sent, hs, rd, usr, cntVars>>

\* After transport.close(): lost, or transport.abort() and one more wait.
CcWaitClose ==
    /\ cc = "wait_close"
    /\ WaitForConnectionLostEnds(clw)
    /\ IF clw
       THEN /\ cc' = "done"
            /\ UNCHANGED transport
       ELSE /\ cc' = "wait_abort"
            /\ transport' = [transport EXCEPT !.aborted = TRUE]
    /\ UNCHANGED <<connVars, queVars, dataVars, lockHolder, lockQ, sent, hs, rd, usr, cntVars>>

CcWaitAbort ==
    /\ cc = "wait_abort"
    /\ WaitForConnectionLostEnds(clw)
    /\ cc' = "done"
    /\ UNCHANGED <<connVars, queVars, dataVars, ioVars, hs, rd, usr, cntVars>>


(***************************************************************************)
(* transfer_data: the read loop.                                           *)
(***************************************************************************)
\* The code of the ConnectionClosed that transfer_data stores, by the way
\* the loop ended (ccode: close_code at that moment).
\* (_CancelValue: transport errors given the code of a cancellation.)
ExcCode_CancelValue(kind, ccode) ==
    CASE kind = "protocol" -> 1002
      [] kind \in {"transport", "timeout"} -> 1000
      [] kind = "unicode" -> 1007
      [] kind = "payload" -> 1009
      [] kind = "other" -> 1011
      [] OTHER -> IF ccode # 0 THEN ccode ELSE 1000
ExcCode(kind, ccode) ==
    CASE kind = "protocol" -> 1002
      [] kind \in {"transport", "timeout"} -> 1006
      [] kind = "unicode" -> 1007
      [] kind = "payload" -> 1009
      [] kind = "other" -> 1011
      [] OTHER -> IF ccode # 0 THEN ccode ELSE 1000

\* Whether the handler of this ending calls fail_connection.
ExcFails(kind) == kind \notin {"cancel", "close"}

\* The end of transfer_data: the except / else clause for `kind`, then the
\* final error is stored.  ccode and st: close_code and state as this step
\* has left them so far; gate: the task inside the write gate.
\* (reason: close_reason as this step has left it so far.)
RdFinishWith(kind, ccode, reason, st, gate) ==
    LET code == ExcCode(kind, ccode)
    IN  /\ state' = IF ExcFails(kind) THEN FailState(code, st) ELSE st
        /\ sent' = IF ExcFails(kind) THEN FailSent(code, st, "rd", gate) ELSE sent
        /\ close_code' = ccode
        /\ close_reason' = reason
        /\ transfer_data_exc' = IF transfer_data_exc = 0 THEN code ELSE transfer_data_exc
        /\ getters' = IF transfer_data_exc = 0 THEN SetException(getters, code) ELSE getters
        /\ clw' = (clw \/ (kind = "close" /\ is_client))
        /\ rd' = [rd EXCEPT !.pc = "done", !.cause = kind, !.throw = "none",
                            !.frame = NoFrame]

RdFinish(kind, ccode, st, gate) == RdFinishWith(kind, ccode, close_reason, st, gate)

CanRead == rd.pc = "read" /\ rd.throw = "none"

\* write_frame of the read task (the PONG reply, the CLOSE echo) up to its
\* first await.
RdBeginWrite(f) ==
    IF WriteFrameMustWait
    THEN /\ rd' = [rd EXCEPT !.pc = "lock", !.frame = f]
         /\ lockQ' = Append(lockQ, "rd")
         /\ UNCHANGED <<lockHolder, sent>>
    ELSE /\ rd' = [rd EXCEPT !.pc = "drain", !.frame = f]
         /\ lockHolder' = "rd"
         /\ sent' = Append(sent, Written(Encode(extensions, f), "rd", "write_frame", "rd"))
         /\ UNCHANGED lockQ

\* max_size of the read_data_frame call the loop is suspended in: what the
\* fragments taken so far have left of it.
\* (_PerFrame: every frame read against the whole of max_size.)
ReadLimit_PerFrame == max_size
ReadLimit == IF rd.frag THEN rd.left ELSE max_size

\* The frame reader refuses a frame whose payload is longer than max_size.
OverLimit(length, limit) == length > limit

\* The locals of read_message when the next message is awaited.
RdNextMessage(r) ==
    [r EXCEPT !.frag = FALSE, !.text = FALSE, !.buf = <<>>, !.dec = <<>>,
              !.left = max_size, !.frame = NoFrame]

\* if frame.fin: return frame.data.decode('utf-8') if text else frame.data
WholeFrameMessage(text, data) ==
    IF text THEN [ok |-> Utf8Decode(data).ok, msg |-> Message(TRUE, Utf8Decode(data).chars)]
    ELSE [ok |-> TRUE, msg |-> Message(FALSE, data)]

\* append(frame) of a fragmented message: the chunk, and the decoder's buffer.
FragmentChunk(text, pend, data, fin) ==
    IF text THEN DecoderDecode(pend, data, fin)
    ELSE [ok |-> TRUE, chars |-> data, pend |-> <<>>]

\* read_message: the opcode is not the one expected here, TEXT or BINARY for
\* the first frame of a message and CONT for the frames after it.
\* (_FirstOnly: only the first frame of a message tested.)
UnexpectedOpcode_FirstOnly(frag, op) == ~frag /\ op = WS_OP_CONT
UnexpectedOpcode(frag, op) == (~frag /\ op = WS_OP_CONT) \/ (frag /\ op # WS_OP_CONT)

\* read_message takes a data frame: the frame is over the limit, has an
\* opcode that is not expected here, is a whole message, or is a fragment,
\* which is decoded and joins the chunks.
RdData(op, fin, data) ==
    LET text == IF rd.frag THEN rd.text ELSE op = WS_OP_TEXT
        whole == ~rd.frag /\ fin
        w == WholeFrameMessage(text, data)
        c == FragmentChunk(text, rd.dec, data, fin)
        kind == IF OverLimit(Len(data), ReadLimit) THEN "payload"
                ELSE IF UnexpectedOpcode(rd.frag, op) THEN "protocol"
                ELSE IF (whole /\ ~w.ok) \/ (~whole /\ ~c.ok) THEN "unicode"
                ELSE "none"
        lg == [log EXCEPT !.frames = (IF rd.frag THEN @ ELSE <<>>)
                                         \o <<[op |-> op, fin |-> fin, data |-> data]>>]
    IN  /\ CanRead
        /\ nReads' = nReads + 1
        /\ IF kind # "none"
           THEN /\ RdFinish(kind, close_code, state, lockHolder)
                /\ log' = lg
                /\ UNCHANGED messages
           ELSE /\ IF fin
                   THEN /\ SetResult(IF whole THEN w.msg ELSE Message(text, rd.buf \o c.chars),
                                     lg)
                        /\ rd' = RdNextMessage(rd)
                   ELSE /\ rd' = [rd EXCEPT !.frag = TRUE, !.text = text,
                                            !.buf = @ \o c.chars, !.dec = c.pend,
                                            !.left = ReadLimit - Len(data),
                                            !.frame = NoFrame]
                        /\ log' = lg
                        /\ UNCHANGED <<messages, getters>>
                /\ UNCHANGED <<state, sent, close_code, close_reason, transfer_data_exc, clw>>
        /\ UNCHANGED <<confVars, regVars, hsVars, pings, waiter, lockHolder, lockQ, transport,
                       hs, cc, usr>>

\* The frame cannot be read or decoded: the exception that is raised.
RdError(kind) ==
    /\ CanRead
    /\ nReads' = nReads + 1
    /\ IF kind = "other"
       THEN /\ rd' = [rd EXCEPT !.pc = "render", !.cause = "other"]
            /\ UNCHANGED <<state, sent, close_code, close_reason, transfer_data_exc, clw, getters>>
       ELSE RdFinish(kind, close_code, state, lockHolder)
    /\ UNCHANGED <<confVars, regVars, hsVars, log, dataVars, lockHolder, lockQ, transport,
                   hs, cc, usr>>

\* _process_CTRL_frame, PING: await self.pong(frame.data).
RdPing(data) ==
    LET o == EnsureOpen(state, close_code, FALSE)
    IN  /\ CanRead
        /\ nReads' = nReads + 1
        /\ IF o = "ok" /\ WriteFrameStateOk(state, OPEN)
           THEN RdBeginWrite(Frame(WS_OP_PONG, data))
           ELSE /\ rd' = IF o = "wait"
                         THEN [rd EXCEPT !.pc = "eshield", !.frame = Frame(WS_OP_PONG, data)]
                         ELSE [rd EXCEPT !.pc = "render", !.cause = "other"]
                /\ UNCHANGED <<lockHolder, lockQ, sent>>
        /\ UNCHANGED <<connVars, queVars, dataVars, transport, hs, cc, usr>>

\* _process_CTRL_frame, PONG: the entries popped from the front of pings.
RECURSIVE PopUntil(_, _, _)
PopUntil(ps, ping_id, data) ==
    IF ping_id = data \/ ps = <<>> THEN ps
    ELSE PopUntil(Tail(ps), Head(ps).token, data)

\* (_Unchecked: without the test that the payload is a pending token.)
PongRest_Unchecked(ps, data) == PopUntil(ps, <<>>, data)
\* (_FromNone: ping_id starts as a value no payload equals.)
PongRest_FromNone(ps, data) ==
    IF data \in Tokens(ps) THEN PopUntil(ps, NoData, data) ELSE ps
PongRest(ps, data) ==
    IF data \in Tokens(ps) THEN PopUntil(ps, <<>>, data) ELSE ps

\* pong_waiter.set_result_if_pending(None) for every popped entry.
PongResolve(w, ps, rest) ==
    LET popped == {ps[i].id : i \in 1..(Len(ps) - Len(rest))}
    IN  [i \in DOMAIN w |-> IF i \in popped /\ w[i] = "pending" THEN "resolved" ELSE w[i]]

RdPong(data) ==
    /\ CanRead
    /\ nReads' = nReads + 1
    /\ pings' = PongRest(pings, data)
    /\ waiter' = PongResolve(waiter, pings, pings')
    /\ rd' = [rd EXCEPT !.frame = Frame(WS_OP_PONG, data)]
    /\ UNCHANGED <<connVars, queVars, messages, ioVars, hs, cc, usr>>

\* _process_CTRL_frame, CLOSE: the close code the payload records, or 0 for
\* a payload that is a protocol error.
ClosePayloadCode(data) ==
    IF Len(data) >= 2
    THEN (IF ValidCloseCode(CodeFromBytes(data)) THEN CodeFromBytes(data) ELSE 0)
    ELSE IF Len(data) = 0 THEN 1005 ELSE 0

\* _process_CTRL_frame, CLOSE: data[2:].decode('utf-8') of a payload of two
\* bytes or more; a shorter payload has no reason to decode.
\* (_Raw: the bytes taken for the str, whatever they are.)
ClosePayloadReason_Raw(data) == [ok |-> TRUE, chars |-> SubSeq(data, 3, Len(data))]
ClosePayloadReason(data) ==
    IF Len(data) >= 2 THEN Utf8Decode(SubSeq(data, 3, Len(data)))
    ELSE [ok |-> TRUE, chars |-> close_reason]

RdClose(data) ==
    LET code == ClosePayloadCode(data)
        reason == ClosePayloadReason(data)
    IN  /\ CanRead
        /\ nReads' = nReads + 1
        /\ IF code = 0
           THEN /\ RdFinish("protocol", close_code, state, lockHolder)
                /\ UNCHANGED <<lockHolder, lockQ>>
           ELSE IF ~reason.ok
           THEN /\ RdFinish("unicode", close_code, state, lockHolder)
                /\ UNCHANGED <<lockHolder, lockQ>>
           ELSE IF state = OPEN /\ WriteFrameStateOk(CLOSING, CLOSING)
           THEN /\ state' = CLOSING
                /\ close_code' = code
                /\ close_reason' = reason.chars
                /\ RdBeginWrite(Frame(WS_OP_CLOSE, data))
                /\ UNCHANGED <<transfer_data_exc, clw, getters>>
           ELSE /\ RdFinishWith(IF rd.frag THEN "protocol" ELSE "close", code,
                                reason.chars, state, lockHolder)
                /\ UNCHANGED <<lockHolder, lockQ>>
        /\ UNCHANGED <<confVars, regVars, hsVars, log, dataVars, transport, hs, cc, usr>>


\* The gate is free and the read task is the oldest waiting for it.
RdLockAcquire ==
    /\ rd.pc = "lock" /\ rd.throw = "none"
    /\ lockHolder = "none"
    /\ lockQ # <<>> /\ Head(lockQ) = "rd"
    /\ lockQ' = Tail(lockQ)
    /\ lockHolder' = "rd"
    /\ sent' = Append(sent, Written(Encode(extensions, rd.frame), "rd", "write_frame", "rd"))
    /\ rd' = [rd EXCEPT !.pc = "drain"]
    /\ UNCHANGED <<connVars, queVars, dataVars, transport, hs, cc, usr, cntVars>>

\* The read task's write_frame returned normally: after the PONG reply the
\* loop reads on; after the CLOSE echo read_data_frame returns None, which
\* ends the loop, or is a protocol error inside a fragmented message.
RdAfterWrite(gate) ==
    IF rd.frame.op = WS_OP_PONG
    THEN /\ rd' = [rd EXCEPT !.pc = "read", !.frame = NoFrame]
         /\ UNCHANGED <<state, sent, close_code, close_reason, transfer_data_exc, clw, getters>>
    ELSE RdFinish(IF rd.frag THEN "protocol" ELSE "close", close_code, state, gate)

RdDrainDone ==
    /\ rd.pc = "drain" /\ rd.throw = "none"
    /\ lockHolder' = "none"
    /\ RdAfterWrite("none")
    /\ UNCHANGED <<confVars, regVars, hsVars, log, dataVars, lockQ, transport, hs, cc, usr, cntVars>>

\* drain() raises ConnectionError in the read task: fail_connection() cancels
\* the running task itself, so CancelledError is thrown at its next await.
RdDrainError ==
    LET o == EnsureOpen(state, close_code, FALSE)
    IN  /\ rd.pc = "drain" /\ rd.throw = "none"
        /\ transport.lost
        /\ IF o = "ok"
           THEN /\ lockHolder' = "none"
                /\ IF rd.frame.op = WS_OP_PONG
                   THEN /\ rd' = [rd EXCEPT !.pc = "read", !.frame = NoFrame,
                                            !.throw = "cancel"]
                        /\ UNCHANGED <<state, sent, close_code, close_reason, transfer_data_exc, clw, getters>>
                   ELSE RdFinish(IF rd.frag THEN "protocol" ELSE "close",
                                 close_code, state, "none")
           ELSE /\ UNCHANGED <<state, sent, close_code, close_reason, transfer_data_exc, clw, getters>>
                /\ IF o = "wait"
                   THEN /\ rd' = [rd EXCEPT !.pc = "wshield", !.throw = "cancel"]
                        /\ UNCHANGED lockHolder
                   ELSE /\ rd' = [rd EXCEPT !.pc = "render", !.cause = "other",
                                            !.throw = "cancel", !.frame = NoFrame]
                        /\ lockHolder' = "none"
        /\ UNCHANGED <<confVars, regVars, hsVars, log, dataVars, lockQ, transport, hs, cc, usr, cntVars>>

\* render_exc_async returned: the handler of an unexpected exception ends.
RdRenderDone ==
    /\ rd.pc = "render" /\ rd.throw = "none"
    /\ RdFinish("other", close_code, state, lockHolder)
    /\ UNCHANGED <<confVars, regVars, hsVars, log, dataVars, lockHolder, lockQ, transport,
                   hs, cc, usr, cntVars>>

\* CancelledError or TimeoutError is thrown into the read task at the await
\* it is suspended in.  Inside the handler of an unexpected exception
\* (render_exc_async) nothing catches it and transfer_data ends with it.
RdThrown ==
    LET gate == IF lockHolder = "rd" THEN "none" ELSE lockHolder
    IN  /\ rd.pc \in {"read", "lock", "drain", "eshield", "wshield", "render"}
        /\ rd.throw # "none"
        /\ lockHolder' = gate
        /\ lockQ' = Remove(lockQ, "rd")
        /\ IF rd.pc = "render"
           THEN /\ rd' = [rd EXCEPT !.pc = "done", !.throw = "none", !.frame = NoFrame]
                /\ UNCHANGED <<state, sent, close_code, close_reason, transfer_data_exc, clw, getters>>
           ELSE RdFinish(rd.throw, close_code, state, gate)
        /\ UNCHANGED <<confVars, regVars, hsVars, log, dataVars, transport, hs, cc, usr, cntVars>>

(***************************************************************************)
(* The specification.                                                      *)
(***************************************************************************)
DataInputs == {<<WS_OP_TEXT, TRUE>>, <<WS_OP_TEXT, FALSE>>, <<WS_OP_CONT, TRUE>>}
CloseInputs ==
    {<<>>, <<3>>, SerializeClose(1000, <<>>), SerializeClose(1005, <<>>),
     SerializeClose(1001, <<195, 169>>), SerializeClose(1001, <<169>>)}
PingInputs == {<<7>>}
PongInputs == Tokens(pings) \cup {<<9>>}
ErrorKinds == {"protocol", "transport", "unicode", "payload", "other"}

\* The connection's own steps: the handshake, the transport's callbacks, the
\* read loop with the frames the peer sends, and the close connection task.
Engine ==
    \/ ClientConnect
    \/ \E p \in {"none", "async", "early", "closing"} : ServerRequest(p, PlainRequest)
    \/ ServerRequest("neterr", NoHttpMessage)
    \/ \E early \in BOOLEAN : ServerProcesser(early)
    \/ ServerFailWait
    \/ ConnectionLost
    \/ CcStart
    \/ CcRdDone
    \/ CcWaitClient
    \/ CcWaitEof
    \/ CcWaitClose
    \/ CcWaitAbort
    \/ \E f \in DataInputs : nReads < MaxReads /\ RdData(f[1], f[2], <<1>>)
    \/ \E k \in ErrorKinds : nReads < MaxReads /\ RdError(k)
    \/ \E d \in PingInputs : nReads < MaxReads /\ RdPing(d)
    \/ \E d \in PongInputs : nReads < MaxReads /\ RdPong(d)
    \/ \E d \in CloseInputs : nReads < MaxReads /\ RdClose(d)
    \/ RdLockAcquire
    \/ RdDrainDone
    \/ RdDrainError
    \/ RdRenderDone
    \/ RdThrown

\* One caller, any public operation.
Next ==
    \/ Engine
    \/ \E u \in Callers : Send(u)
    \/ \E u \in Callers : Pong(u)
    \/ \E u \in Callers : \E d \in PingArgs : Ping(u, d)
    \/ \E u \in Callers : PingWaitDone(u)
    \/ \E u \in Callers : LockAcquire(u)
    \/ \E u \in Callers : DrainDone(u)
    \/ \E u \in Callers : DrainError(u)
    \/ \E u \in Callers : ShieldDone(u)
    \/ \E u \in Callers : \E c \in CloseArgs : Close(u, c)
    \/ \E u \in Callers : CloseTaskStep(u)
    \/ \E u \in Callers : CloseWriteTimeout(u)
    \/ \E u \in Callers : CloseReadTimeout(u)
    \/ \E u \in Callers : CloseRdDone(u)
    \/ \E u \in Callers : CloseCcDone(u)

\* Two callers, both of ping() on an open connection, of a client without TLS.
InitPing == Init /\ is_client /\ ~is_ssl

NextPing ==
    \/ ClientConnect
    \/ ConnectionLost
    \/ CcStart
    \/ CcRdDone
    \/ CcWaitClient
    \/ CcWaitEof
    \/ CcWaitClose
    \/ CcWaitAbort
    \/ \E f \in DataInputs : nReads < MaxReads /\ RdData(f[1], f[2], <<1>>)
    \/ \E k \in ErrorKinds : nReads < MaxReads /\ RdError(k)
    \/ \E d \in PingInputs : nReads < MaxReads /\ RdPing(d)
    \/ \E d \in PongInputs : nReads < MaxReads /\ RdPong(d)
    \/ \E d \in CloseInputs : nReads < MaxReads /\ RdClose(d)
    \/ RdLockAcquire
    \/ RdDrainDone
    \/ RdDrainError
    \/ RdRenderDone
    \/ RdThrown
    \/ \E u \in Users : \E d \in PingArgs : state = OPEN /\ Ping(u, d)
    \/ \E u \in Users : PingWaitDone(u)
    \/ \E u \in Users : LockAcquire(u)
    \/ \E u \in Users : DrainDone(u)
    \/ \E u \in Users : DrainError(u)
    \/ \E u \in Users : ShieldDone(u)

\* The read loop with the receivers of its messages, on a client without
\* TLS: two callers of receive(), which call again and again, and queues of
\* every capacity.
InitRecv == (\E q \in QueueSizes : Construct(DefaultMaxSize, q)) /\ is_client /\ ~is_ssl

NextRecv ==
    \/ ClientConnect
    \/ ConnectionLost
    \/ CcStart
    \/ CcRdDone
    \/ CcWaitClient
    \/ CcWaitEof
    \/ CcWaitClose
    \/ CcWaitAbort
    \/ \E f \in DataInputs : nReads < MaxFrames /\ RdData(f[1], f[2], <<65 + nReads>>)
    \/ \E k \in ErrorKinds : nReads < MaxFrames /\ RdError(k)
    \/ \E d \in CloseInputs : nReads < MaxFrames /\ RdClose(d)
    \/ RdDrainDone
    \/ RdDrainError
    \/ RdRenderDone
    \/ RdThrown
    \/ \E u \in Users : Recv(u)
    \/ \E u \in Users : RecvDone(u)

\* read_message alone, on a client without TLS, with every size limit: the
\* data frames, of every payload, up to the end of the first message.
InitRead == (\E m \in SizeLimits : Construct(m, 0)) /\ is_client /\ ~is_ssl

Payloads == UNION {[1..n -> Bytes] : n \in 0..MaxFragment}

NextRead ==
    \/ ClientConnect
    \/ \E op \in WS_DATA_OPCODES : \E fin \in BOOLEAN : \E data \in Payloads :
           nReads < MaxFrames /\ log.arrived = <<>> /\ RdData(op, fin, data)

\* read_message with the CLOSE frames of the peer among the data frames.
NextReadClose ==
    \/ NextRead
    \/ \E d \in CloseInputs : nReads < MaxFrames /\ RdClose(d)
    \/ RdDrainDone

\* The opening handshake of the client alone: every key, offer and response.
Keys == {"k1", "k2"}
ExtA  == [name |-> "a", valid |-> {"p"}]
ExtA2 == [name |-> "a", valid |-> {"q"}]
ExtB  == [name |-> "b", valid |-> {"p", "q"}]
ClientOffers ==
    {Offer("none", {}, e, p) :
        e \in {<<>>, <<ExtA, ExtB>>, <<ExtA, ExtA2>>},
        p \in {<<>>, <<"chat">>, <<"chat", "mqtt">>}}
Responses ==
    {HttpMessage(v, st, Headers(c, u, a, <<>>, <<>>, <<>>, e, p)) :
        v \in {"HTTP/1.0", "HTTP/1.1"}, st \in {SWITCHING_PROTOCOLS, EarlyStatus},
        c \in {<<>>, <<"Upgrade">>, <<"keep-alive">>, <<"keep-alive", "upgrade">>},
        u \in {<<>>, <<"websocket">>, <<"WebSocket">>, <<"h2c">>,
               <<"websocket", "h2c">>, <<"h2c", "websocket">>},
        a \in {<<>>, <<AcceptKey(PlainKey), AcceptKey(PlainKey)>>} \cup
              {<<AcceptKey(k)>> : k \in Keys},
        e \in {<<>>, <<<<"a", "p">>>>, <<<<"a", "q">>>>, <<<<"b", "q">>, <<"a", "p">>>>,
               <<<<"c", "p">>>>},
        p \in {<<>>, <<"chat">>, <<"mqtt">>, <<"chat", "mqtt">>}}

InitClient == Init /\ is_client

NextClient ==
    /\ hs = "client"
    /\ \E key \in Keys : \E offer \in ClientOffers : \E response \in Responses :
           ClientHandshake(key, offer, response)

\* The opening handshake of the server alone, up to its end: every
\* configuration of the server and every request.
ServerOffers ==
    {Offer("none", o, e, p) : o \in {{}, {"o1"}}, e \in {<<>>, <<ExtA, ExtB>>},
                              p \in {<<>>, <<"chat", "mqtt">>}}
Requests ==
    {HttpMessage("HTTP/1.1", 0, Headers(c, u, <<>>, k, v, o, e, p)) :
        c \in {<<"Upgrade">>, <<"keep-alive">>},
        u \in {<<>>, <<"websocket">>, <<"h2c">>, <<"h2c", "websocket">>},
        k \in {<<>>, <<"k1">>, <<"short">>, <<"not base64">>, <<"k1", "k2">>},
        v \in {<<>>, <<"13">>, <<"12">>, <<"13", "13">>},
        o \in {<<>>, <<"o1">>, <<"o2">>, <<"o1", "o1">>},
        e \in {<<>>, <<<<"a", "p">>>>, <<<<"c", "p">>, <<"a", "p">>>>},
        p \in {<<>>, <<"mqtt", "chat">>}}

InitServer ==
    (\E offer \in ServerOffers : ConstructWith(DefaultMaxSize, 0, offer))
    /\ ~is_client /\ ~is_ssl

NextServer ==
    \/ /\ hs = "request"
       /\ \E p \in {"none", "async", "early", "closing"} : \E request \in Requests :
              ServerRequest(p, request)
    \/ ServerRequest("neterr", NoHttpMessage)
    \/ \E early \in BOOLEAN : ServerProcesser(early)
    \/ ServerFailWait
    \/ ConnectionLost

\* The subprotocol selection of the server alone: every list of the server
\* and of the request, of up to MaxSubprotocols entries.
SubprotocolLists ==
    UNION {[1..n -> {"chat", "mqtt", "soap"}] : n \in 0..MaxSubprotocols}

InitSelect ==
    (\E l \in SubprotocolLists : ConstructWith(DefaultMaxSize, 0, Offer("none", {}, <<>>, l)))
    /\ ~is_client /\ ~is_ssl

NextSelect ==
    /\ hs = "request"
    /\ \E l \in SubprotocolLists :
           ServerRequest("none", [PlainRequest EXCEPT !.headers.Protocol = l])

SpecSelect == InitSelect /\ [][NextSelect]_vars

(***************************************************************************)
(* A server connection with two negotiated extensions: the frames it       *)
(* writes, and the frames it is sent, which the peer encoded with the same *)
(* extensions in their order, or not at all.                               *)
(***************************************************************************)
\* read_data_frame: the frame read is decoded by the extensions, then
\* returned (a data frame) or handed to _process_CTRL_frame.  A frame the
\* extensions cannot decode is an error of theirs.
RdFrame(w, fin) ==
    LET f == Decode(extensions, w)
    IN  IF f.enc # <<>> THEN RdError("other")
        ELSE IF f.op \in WS_DATA_OPCODES THEN RdData(f.op, fin, f.data)
        ELSE IF f.op = WS_OP_CLOSE THEN RdClose(f.data)
        ELSE IF f.op = WS_OP_PING THEN RdPing(f.data)
        ELSE RdPong(f.data)

ExtRequest == [PlainRequest EXCEPT !.headers.Extensions = <<<<"a", "p">>, <<"b", "p">>>>]

\* The frames before the peer's extensions encode them.
PlainFrames ==
    {Frame(WS_OP_TEXT, <<65>>), Frame(WS_OP_CONT, <<65>>), Frame(WS_OP_PING, <<7>>),
     Frame(WS_OP_PONG, <<9>>), Frame(WS_OP_CLOSE, SerializeClose(1000, <<>>))}

InitExt ==
    ConstructWith(DefaultMaxSize, 0, Offer("none", {}, <<ExtA, ExtB>>, <<>>))
    /\ ~is_client /\ ~is_ssl

NextExt ==
    \/ ServerRequest("none", ExtRequest)
    \/ ConnectionLost
    \/ CcStart
    \/ CcRdDone
    \/ CcWaitEof
    \/ CcWaitClose
    \/ CcWaitAbort
    \/ \E f \in PlainFrames : \E fin \in BOOLEAN :
           nReads < MaxReads /\ RdFrame(Encode(extensions, f), fin)
    \/ nReads < MaxReads /\ RdFrame(Frame(WS_OP_PING, <<7>>), TRUE)
    \/ RdLockAcquire
    \/ RdDrainDone
    \/ RdDrainError
    \/ RdRenderDone
    \/ RdThrown
    \/ \E u \in Callers : Send(u)
    \/ \E u \in Callers : Pong(u)
    \/ \E u \in Callers : \E d \in PingArgs : Ping(u, d)
    \/ \E u \in Callers : PingWaitDone(u)
    \/ \E u \in Callers : LockAcquire(u)
    \/ \E u \in Callers : DrainDone(u)
    \/ \E u \in Callers : DrainError(u)
    \/ \E u \in Callers : ShieldDone(u)
    \/ \E u \in Callers : \E c \in CloseArgs : Close(u, c)
    \/ \E u \in Callers : CloseTaskStep(u)
    \/ \E u \in Callers : CloseWriteTimeout(u)
    \/ \E u \in Callers : CloseReadTimeout(u)
    \/ \E u \in Callers : CloseRdDone(u)
    \/ \E u \in Callers : CloseCcDone(u)

SpecExt == InitExt /\ [][NextExt]_vars

(***************************************************************************)
(* The registry of the server: WSServer, and of each connection it holds   *)
(* the lifetime_handler task and the close(1001) of the shutdown.  A       *)
(* connection is reduced to its state and to whether connection_open ran.  *)
(***************************************************************************)
regOther == <<confVars, hsVars, state, close_code, close_reason, transfer_data_exc, clw, dataVars,
              queVars, ioVars, taskVars, cntVars>>

\* WSServer.register, WSServer.unregister.
Register(ws, c) == ws \cup {c}
\* (_Never: the set left as it is.)
Unregister_Never(ws, c) == ws
Unregister(ws, c) == ws \ {c}

\* lifetime_handler ends: its finally clause runs before the task is done.
LifetimeEnd(c, st) ==
    /\ conn' = [conn EXCEPT ![c].task = "done", ![c].state = st]
    /\ websockets' = Unregister(websockets, c)

\* connection_made: the connection is registered and its handler task made.
ConnectionMade(c) ==
    /\ server = "serving"
    /\ conn[c].task = "none"
    /\ websockets' = Register(websockets, c)
    /\ conn' = [conn EXCEPT ![c].task = "handshake"]
    /\ UNCHANGED <<server, closer, regOther>>

\* lifetime_handler, handshake(): the request of the peer arrived, good (ok)
\* or not; the handshake returns True (connection_open ran) or False (the
\* connection was failed and is lost).  A good request is refused as well
\* unless server.is_serving().
LifetimeHandshake(c, ok) ==
    /\ conn[c].task = "handshake"
    /\ conn[c].state = CONNECTING
    /\ IF ok /\ server = "serving"
       THEN /\ conn' = [conn EXCEPT ![c].task = "handler", ![c].state = OPEN,
                                    ![c].opened = TRUE]
            /\ UNCHANGED websockets
       ELSE LifetimeEnd(c, CLOSED)
    /\ UNCHANGED <<server, closer, regOther>>

\* lifetime_handler, handshake(): reading the request raised ConnectionError.
LifetimeHandshakeLost(c) ==
    /\ conn[c].task = "handshake"
    /\ conn[c].state = CLOSED
    /\ LifetimeEnd(c, CLOSED)
    /\ UNCHANGED <<server, closer, regOther>>

\* write_close_frame: the state it leaves.
CloseWrite(st) == IF st = OPEN THEN CLOSING ELSE st

\* lifetime_handler: the handler returned; close() is called and writes the
\* CLOSE frame.
LifetimeHandlerReturn(c) ==
    /\ conn[c].task = "handler"
    /\ conn' = [conn EXCEPT ![c].task = "close", ![c].state = CloseWrite(@)]
    /\ UNCHANGED <<server, websockets, closer, regOther>>

\* lifetime_handler: the handler raised; the exception is rendered.
LifetimeHandlerRaise(c) ==
    /\ conn[c].task = "handler"
    /\ LifetimeEnd(c, conn[c].state)
    /\ UNCHANGED <<server, closer, regOther>>

\* lifetime_handler: close() returned.
LifetimeCloseDone(c) ==
    /\ conn[c].task = "close"
    /\ conn[c].state = CLOSED
    /\ LifetimeEnd(c, CLOSED)
    /\ UNCHANGED <<server, closer, regOther>>

\* handler_task.cancel(): CancelledError is thrown into lifetime_handler at
\* the await it is suspended in.  handshake() catches it and returns False;
\* past the handshake the except clause closes and aborts the transport.
LifetimeCancelled(c) ==
    /\ conn[c].task \in {"handshake", "handler", "close"}
    /\ conn' = [conn EXCEPT ![c].task = "done",
                            ![c].tr = IF conn[c].task = "handshake" THEN @ ELSE "aborted"]
    /\ websockets' = Unregister(websockets, c)
    /\ UNCHANGED <<server, closer, regOther>>

\* connection_lost, the peer having dropped the connection.
PeerLost(c) ==
    /\ conn[c].task # "none"
    /\ conn[c].state \in {CONNECTING, OPEN}
    /\ conn' = [conn EXCEPT ![c].state = CLOSED]
    /\ UNCHANGED <<server, websockets, closer, regOther>>

\* The closing handshake ends, with the CLOSE of the peer or with
\* close_timeout: close_connection_task closes the transport.
ClosingDone(c) ==
    /\ conn[c].state = CLOSING
    /\ conn' = [conn EXCEPT ![c].state = CLOSED]
    /\ UNCHANGED <<server, websockets, closer, regOther>>

\* WSServer.close: the task of _close is made, once.
ServerClose ==
    /\ closer.pc = "none"
    /\ closer' = [closer EXCEPT !.pc = "start"]
    /\ UNCHANGED <<server, websockets, conn, regOther>>

\* _close: server.close(), await server.wait_closed().
ServerCloseListener ==
    /\ closer.pc = "start"
    /\ server' = "closing"
    /\ closer' = [closer EXCEPT !.pc = "wait_closed"]
    /\ UNCHANGED <<websockets, conn, regOther>>

\* The listener is closed.
ListenerClosed ==
    /\ server = "closing"
    /\ server' = "closed"
    /\ UNCHANGED <<websockets, conn, closer, regOther>>

\* _close: wait_closed() returned; one full loop is skipped.
ServerCloseSkip ==
    /\ closer.pc = "wait_closed"
    /\ server = "closed"
    /\ closer' = [closer EXCEPT !.pc = "skip"]
    /\ UNCHANGED <<server, websockets, conn, regOther>>

\* _close: the connections close(1001) is called of.
\* (_One: one of them only.)
ClosedWebsockets_One(ws) == IF ws = {} THEN {} ELSE {CHOOSE c \in ws : TRUE}
ClosedWebsockets(ws) == ws

\* _close: if websockets: await WaitTillAll([websocket.close(1001) ...]).
ServerCloseIssue ==
    /\ closer.pc = "skip"
    /\ IF websockets # {}
       THEN /\ closer' = [closer EXCEPT !.pc = "closes",
                                        !.closes = ClosedWebsockets(websockets)]
            /\ conn' = [c \in Conns |->
                          IF c \in ClosedWebsockets(websockets)
                          THEN [conn[c] EXCEPT !.close = "start"] ELSE conn[c]]
       ELSE /\ closer' = [closer EXCEPT !.pc = "done"]
            /\ UNCHANGED conn
    /\ UNCHANGED <<server, websockets, regOther>>

\* close(1001) of _close: write_close_frame, then the wait for
\* transfer_data_task, which is None (AttributeError) unless connection_open
\* ran.
Close1001(c) ==
    /\ conn[c].close = "start"
    /\ conn' = IF conn[c].opened
               THEN [conn EXCEPT ![c].close = "wait", ![c].state = CloseWrite(@)]
               ELSE [conn EXCEPT ![c].close = "AttributeError"]
    /\ UNCHANGED <<server, websockets, closer, regOther>>

\* close(1001) of _close: close_connection_task is done.
Close1001Done(c) ==
    /\ conn[c].close = "wait"
    /\ conn[c].state = CLOSED
    /\ conn' = [conn EXCEPT ![c].close = "done"]
    /\ UNCHANGED <<server, websockets, closer, regOther>>

\* _close: every close(1001) is done; if websockets: await
\* WaitTillAll([websocket.handler_task ...]).
ServerCloseAwaitHandlers ==
    /\ closer.pc = "closes"
    /\ \A c \in closer.closes : conn[c].close \in {"done", "AttributeError"}
    /\ closer' = IF websockets # {}
                 THEN [closer EXCEPT !.pc = "handlers", !.handlers = websockets]
                 ELSE [closer EXCEPT !.pc = "done"]
    /\ UNCHANGED <<server, websockets, conn, regOther>>

\* _close: every handler task awaited is done.
ServerCloseDone ==
    /\ closer.pc = "handlers"
    /\ \A c \in closer.handlers : conn[c].task = "done"
    /\ closer' = [closer EXCEPT !.pc = "done"]
    /\ UNCHANGED <<server, websockets, conn, regOther>>

InitRegistry == Init /\ ~is_client /\ ~is_ssl

NextRegistry ==
    \/ \E c \in Conns :
           \/ ConnectionMade(c)
           \/ \E ok \in BOOLEAN : LifetimeHandshake(c, ok)
           \/ LifetimeHandshakeLost(c)
           \/ LifetimeHandlerReturn(c)
           \/ LifetimeHandlerRaise(c)
           \/ LifetimeCloseDone(c)
           \/ LifetimeCancelled(c)
           \/ PeerLost(c)
           \/ ClosingDone(c)
           \/ Close1001(c)
           \/ Close1001Done(c)
    \/ ServerClose
    \/ ServerCloseListener
    \/ ListenerClosed
    \/ ServerCloseSkip
    \/ ServerCloseIssue
    \/ ServerCloseAwaitHandlers
    \/ ServerCloseDone

SpecRegistry == InitRegistry /\ [][NextRegistry]_vars

\* What the event loop and the timers do is done in the end; the handler of
\* a connection that is closed returns.  Nothing is assumed of the peers:
\* they need not send a request, answer a CLOSE or drop the connection.
FairnessRegistry ==
    /\ \A c \in Conns :
           /\ WF_vars(LifetimeHandshakeLost(c))
           /\ WF_vars(conn[c].state = CLOSED /\ LifetimeHandlerReturn(c))
           /\ WF_vars(LifetimeCloseDone(c))
           /\ WF_vars(ClosingDone(c))
           /\ WF_vars(Close1001(c))
           /\ WF_vars(Close1001Done(c))
    /\ WF_vars(ServerCloseListener)
    /\ WF_vars(ListenerClosed)
    /\ WF_vars(ServerCloseSkip)
    /\ WF_vars(ServerCloseIssue)
    /\ WF_vars(ServerCloseAwaitHandlers)
    /\ WF_vars(ServerCloseDone)

FairRegistry == SpecRegistry /\ FairnessRegistry

Spec == Init /\ [][Next]_vars

SpecClient == InitClient /\ [][NextClient]_vars

SpecServer == InitServer /\ [][NextServer]_vars

SpecRecv == InitRecv /\ [][NextRecv]_vars

SpecRead == InitRead /\ [][NextRead]_vars
SpecReadClose == InitRead /\ [][NextReadClose]_vars

SpecPing == InitPing /\ [][NextPing]_vars

(***************************************************************************)
(* The properties.                                                         *)
(***************************************************************************)
IsCloseFrame(e) == e.op = WS_OP_CLOSE

\* This step writes a frame to the transport.
FrameWritten == Len(sent') = Len(sent) + 1

\* This step starts the write of a CLOSE frame: the frame is written, or its
\* writer starts to wait for the write gate.
CloseWriteStarted ==
    \/ FrameWritten /\ IsCloseFrame(sent'[Len(sent')])
    \/ lockQ' = Append(lockQ, "rd") /\ IsCloseFrame(rd'.frame)
    \/ \E u \in Users : lockQ' = Append(lockQ, u) /\ IsCloseFrame(usr'[u].frame)

\* C1: once the state is CLOSED, no step changes it to another value.
C1_ClosedIsTerminal == [][state = CLOSED => state' = CLOSED]_vars

\* C2, as stated: every change of the state is CONNECTING->OPEN, OPEN->CLOSING
\* (with the CLOSE frame sent in that step) or CLOSING->CLOSED, and OPEN is
\* entered at most once.
C2_OnlyTheThreeChanges ==
    [][state' # state =>
        /\ \/ state = CONNECTING /\ state' = OPEN
           \/ state = OPEN /\ state' = CLOSING /\ FrameWritten /\ IsCloseFrame(sent'[Len(sent')])
           \/ state = CLOSING /\ state' = CLOSED
        /\ state' = OPEN => rd.pc = "none"]_vars

\* C2, amended: every change of the state is CONNECTING->OPEN, OPEN->CLOSING
\* in the step that starts the write of this side's CLOSE frame, a change to
\* CLOSED from any state when the transport is lost, or CLOSED->OPEN by
\* connection_open at the end of a server handshake (the defect of C1); OPEN
\* is entered at most once.
C2_StateChanges ==
    [][state' # state =>
        /\ \/ state = CONNECTING /\ state' = OPEN
           \/ state = OPEN /\ state' = CLOSING /\ CloseWriteStarted
           \/ state' = CLOSED /\ ~transport.lost /\ transport'.lost
           \/ state = CLOSED /\ state' = OPEN /\ hs = "processer"
        /\ state' = OPEN => rd.pc = "none"]_vars

\* The connection went through OPEN and CLOSING (its CLOSE frame is on the
\* transport) to CLOSED.
C2_Witness == state = CLOSED /\ \E i \in 1..Len(sent) : IsCloseFrame(sent[i])

\* The frames a task has written to the transport.
FramesBy(t) == {i \in 1..Len(sent) : sent[i].by = t}

\* C3, as stated: a send() called in a state other than OPEN fails with
\* ConnectionClosed and writes no frame.
C3_SendFailsClosed ==
    \A u \in Users :
        usr[u].op = "send" /\ usr[u].cs # OPEN =>
            /\ FramesBy(u) = {}
            /\ usr[u].pc = "done" => usr[u].res = "ConnectionClosed"

\* C3, amended: a send() called in a state other than OPEN writes no frame
\* and fails: with ConnectionClosed when the state is CLOSING or CLOSED, with
\* a plain Exception when it is CONNECTING.
C3_SendNotOpen ==
    \A u \in Users :
        usr[u].op = "send" /\ usr[u].cs # OPEN =>
            /\ FramesBy(u) = {}
            /\ usr[u].pc \in {"eshield", "done"}
            /\ usr[u].pc = "done" =>
                   usr[u].res = IF usr[u].cs = CONNECTING THEN "Exception"
                                ELSE "ConnectionClosed"

\* A send() called before the handshake was over has failed.
C3_Witness ==
    \E u \in Users : usr[u].op = "send" /\ usr[u].cs = CONNECTING /\ usr[u].pc = "done"

\* Where a task that writes frames is.
TaskPc(t) == IF t = "rd" THEN rd.pc ELSE usr[t].pc

\* C4, as stated: no frame is written to the transport while another task's
\* write-and-drain holds the write gate.
C4_NoWriteWhileGateHeld ==
    \A i \in 1..Len(sent) : sent[i].gate \in {"none", sent[i].by}

\* C4, amended: the frames written through write_frame are written by the
\* task inside the write gate, and the tasks between a write and the end of
\* its drain are the one inside the gate; only fail_connection writes
\* outside the gate, and only a CLOSE frame.
C4_WriteGate ==
    /\ \A i \in 1..Len(sent) :
           /\ sent[i].via = "write_frame" => sent[i].gate = sent[i].by
           /\ sent[i].via = "fail_connection" => IsCloseFrame(sent[i])
    /\ \A t \in Writers : TaskPc(t) \in {"drain", "wshield"} <=> lockHolder = t

\* One task waits for the write gate while another drains.
C4_Witness == lockHolder # "none" /\ lockQ # <<>>

\* The close codes C5 names as valid, and the codes the validation is
\* compared on.
ClaimedCloseCodes ==
    {1000, 1001, 1002, 1003, 1007, 1008, 1009, 1010, 1011} \cup 3000..4999
CheckedCloseCodes ==
    {0, 65535} \cup 995..1020 \cup 2995..3005 \cup 4995..5005

\* C5: close(code) with a code outside {1000, 1001, 1002, 1003, 1007, 1008,
\* 1009, 1010, 1011} and outside [3000, 5000) raises the protocol error and
\* leaves state, close_code, the transport and the written frames as they
\* were; every code inside the set is accepted.
C5_CloseCodeValidation ==
    [][/\ \A c \in CheckedCloseCodes : ValidCloseCode(c) <=> c \in ClaimedCloseCodes
       /\ \A u \in Users :
              usr[u].pc = "idle" /\ usr'[u].op = "close" =>
                  IF usr'[u].arg[1] \in ClaimedCloseCodes
                  THEN usr'[u].pc = "c_task"
                  ELSE /\ usr'[u].pc = "done" /\ usr'[u].res = "ProtocolError"
                       /\ UNCHANGED <<state, close_code, transport, sent>>]_vars

\* close(5000) was rejected.
C5_Witness ==
    \E u \in Users :
        usr[u].op = "close" /\ usr[u].arg = <<5000>> /\ usr[u].res = "ProtocolError"

\* C6: whenever close() has returned on a connection that had reached OPEN,
\* the transport is no longer open: it was lost, or transport.close() or
\* transport.abort() was called.
C6_CloseLeavesNoOpenTransport ==
    \A u \in Users :
        usr[u].op = "close" /\ usr[u].pc = "done" /\ usr[u].res = "ok" /\ rd.pc # "none" =>
            transport.lost \/ transport.closed \/ transport.aborted

\* The event loop runs every task that can take a step, and every
\* close_timeout timer that was started fires unless its wait ends before.
\* Nothing is assumed of the peer: it need not send a frame, take what was
\* written (drain) or close the connection.
Fairness ==
    /\ \A u \in Callers :
           /\ WF_vars(CloseTaskStep(u))
           /\ WF_vars(CloseWriteTimeout(u))
           /\ WF_vars(CloseReadTimeout(u))
           /\ WF_vars(CloseRdDone(u))
           /\ WF_vars(CloseCcDone(u))
           /\ WF_vars(LockAcquire(u))
           /\ WF_vars(ShieldDone(u))
    /\ WF_vars(RdThrown)
    /\ WF_vars(CcStart)
    /\ WF_vars(CcRdDone)
    /\ WF_vars(CcWaitClient)
    /\ WF_vars(CcWaitEof)
    /\ WF_vars(CcWaitClose)
    /\ WF_vars(CcWaitAbort)

FairSpec == Spec /\ Fairness

\* A close() called on an OPEN connection with a valid code.
CloseOnOpen(u) == usr[u].op = "close" /\ usr[u].cs = OPEN /\ usr[u].res # "ProtocolError"

\* C7, as stated: a close() on an OPEN connection returns.
C7_CloseReturns ==
    \A u \in Users : CloseOnOpen(u) /\ usr[u].pc = "done" => usr[u].res = "ok"

\* C7, amended: a close() on an OPEN connection always ends, whatever the
\* peer does: it returns, or it raises ConnectionClosed when the write of its
\* CLOSE frame failed with a connection error.
C7_CloseEnds ==
    \A u \in Callers :
        (CloseOnOpen(u) /\ usr[u].pc # "done")
            ~> (usr[u].pc = "done" /\ usr[u].res \in {"ok", "ConnectionClosed"})

\* close() has returned although the peer stayed silent to the end: the
\* transport was closed and, not lost after that either, aborted.
C7_Witness ==
    \E u \in Users :
        /\ CloseOnOpen(u) /\ usr[u].pc = "done" /\ usr[u].res = "ok"
        /\ nReads = 0 /\ ~transport.lost /\ transport.closed /\ transport.aborted

\* This step is the read loop taking a PONG frame with this payload.
PongStep(data) ==
    nReads' = nReads + 1 /\ rd'.pc = "read" /\ rd'.frame = Frame(WS_OP_PONG, data)

\* C8: a PONG whose payload equals a pending token T (of any length, the
\* empty payload too) resolves the waiter of T and of every ping registered
\* before it and removes exactly those entries; later ones stay pending.
C8_PongResolvesUpToToken ==
    [][\A i \in 1..Len(pings) :
           PongStep(pings[i].token) =>
               /\ pings' = SubSeq(pings, i + 1, Len(pings))
               /\ \A u \in Users :
                      waiter'[u] =
                          IF waiter[u] = "pending" /\ (\E j \in 1..i : pings[j].id = u)
                          THEN "resolved" ELSE waiter[u]]_vars

\* C9: the tokens of the pending pings are pairwise distinct; a ping() that
\* registers adds its token (the caller's payload when that is free) at the
\* end of the map and leaves every entry and every other waiter as it was.
C9_PingRegistersFreshToken ==
    /\ [](\A i, j \in 1..Len(pings) :
              i # j => pings[i].token # pings[j].token /\ pings[i].id # pings[j].id)
    /\ [][\A u \in Users :
              waiter[u] = "none" /\ waiter'[u] = "pending" =>
                  /\ \E t \in (RandTokens \cup {usr'[u].arg}) \ (Tokens(pings) \cup {NoData}) :
                         /\ pings' = Append(pings, [token |-> t, id |-> u])
                         /\ usr'[u].arg \notin Tokens(pings) \cup {NoData} => t = usr'[u].arg
                  /\ \A v \in Users \ {u} : waiter'[v] = waiter[v]]_vars

\* Two pings are pending, the second called with the payload of the first
\* and registered under a token drawn for it.
C9_Witness ==
    /\ Len(pings) = 2
    /\ pings[1].token = <<>> /\ waiter[pings[1].id] = "pending"
    /\ usr[pings[2].id].arg = <<>> /\ pings[2].token \in RandTokens

\* C10: when the read loop has ended because of an error raised inside it,
\* or because the peer's CLOSE frame was received, the final error is a
\* ConnectionClosed with the code of that ending.
C10_FinalErrorCode ==
    rd.pc = "done" /\ rd.cause \notin {"none", "cancel"} =>
        transfer_data_exc =
            CASE rd.cause = "protocol" -> 1002
              [] rd.cause \in {"transport", "timeout"} -> 1006
              [] rd.cause = "unicode" -> 1007
              [] rd.cause = "payload" -> 1009
              [] rd.cause = "other" -> 1011
              [] rd.cause = "close" -> IF close_code # 0 THEN close_code ELSE 1000

\* This step is a call of receive() by u.
RecvCalled(u) ==
    /\ usr[u].pc \in {"idle", "done"}
    /\ usr'[u].op = "recv"
    /\ usr'[u] # usr[u]

\* C11: with an unbounded queue, the messages reassembled are handed to
\* receive() callers once each and in arrival order (those handed over, then
\* those queued, are those that arrived); the final error is stored when the
\* read loop ends and never replaced; with the loop ended and the queue empty
\* no receive() is left waiting, a receive() called then fails at once, and
\* every receive() that fails carries the stored error.
C11_ReceiveDelivery ==
    /\ [](max_queue = 0 =>
            /\ log.arrived = log.delivered \o messages
            /\ rd.pc = "done" => transfer_data_exc # 0 /\ PendingGetters(getters) = {}
            /\ \A i \in 1..Len(getters) :
                   getters[i].st = "exception" => getters[i].code = transfer_data_exc
            /\ \A u \in Users :
                   usr[u].op = "recv" /\ usr[u].res = "ConnectionClosed" =>
                       usr[u].code = transfer_data_exc)
    /\ [][max_queue = 0 =>
            /\ transfer_data_exc # 0 => transfer_data_exc' = transfer_data_exc
            /\ transfer_data_exc' # transfer_data_exc => rd'.pc = "done"
            /\ \A u \in Users :
                   RecvCalled(u) =>
                       /\ messages # <<>> =>
                              usr'[u].res = "ok" /\ usr'[u].msg = Head(messages)
                       /\ messages = <<>> /\ rd.pc = "done" =>
                              /\ usr'[u].res = "ConnectionClosed"
                              /\ usr'[u].code = transfer_data_exc]_vars

\* C12: when the read loop was ended from outside because of a transport
\* problem (cancelled by fail_connection after a ConnectionError of a write
\* or after the time-out of close()'s write, or timed out by close()'s wait
\* for it), the final error carries the code 1006.
C12_TransportFailureCode ==
    rd.pc = "done" /\ rd.cause \in {"cancel", "timeout"} => transfer_data_exc = 1006

\* C13: a ping() whose waiter was cancelled by close_connection (its PONG
\* had not arrived when the connection ended) fails with ConnectionClosed
\* carrying the close code.
C13_PingFailsClosed ==
    \A u \in Users :
        usr[u].op = "ping" /\ usr[u].pc = "done" /\ waiter[u] = "cancelled" =>
            usr[u].res = "ConnectionClosed" /\ usr[u].code = close_code

\* The payload bytes of a sequence of data frames, joined.
RECURSIVE FramesRaw(_)
FramesRaw(F) == IF F = <<>> THEN <<>> ELSE Head(F).data \o FramesRaw(Tail(F))

\* F is a message split into fragments, or the start of one: a TEXT or
\* BINARY frame that is not final, then CONT frames, none but the last final.
IsSplit(F) ==
    /\ F # <<>>
    /\ F[1].op \in {WS_OP_TEXT, WS_OP_BINARY}
    /\ \A i \in 2..Len(F) : F[i].op = WS_OP_CONT
    /\ \A i \in 1..(Len(F) - 1) : ~F[i].fin
    /\ Len(F) = 1 => ~F[1].fin

\* C14: for a payload within the size limit that arrived split into a first
\* frame and CONT frames, the read loop has delivered exactly the message it
\* delivers for the same payload in one final frame, and has failed with a
\* decoding error exactly when that one frame fails to decode (for a split
\* still incomplete: when no payload that starts so decodes).
C14_FragmentedEqualsWhole ==
    LET F == log.frames
        raw == FramesRaw(F)
        text == F[1].op = WS_OP_TEXT
        w == WholeFrameMessage(text, raw)
    IN  IsSplit(F) /\ Len(raw) <= max_size =>
            IF F[Len(F)].fin
            THEN IF w.ok THEN log.arrived = <<w.msg>> /\ rd.pc = "read"
                 ELSE log.arrived = <<>> /\ rd.pc = "done" /\ rd.cause = "unicode"
            ELSE /\ log.arrived = <<>>
                 /\ rd.pc = "done" <=> (text /\ ~Utf8Scan(raw).ok)
                 /\ rd.pc = "done" => rd.cause = "unicode"

\* U+00E9 arrived in three fragments, its two bytes apart and an empty
\* fragment between them, and was delivered as one character.
C14_Witness ==
    /\ log.frames = <<[op |-> WS_OP_TEXT, fin |-> FALSE, data |-> <<195>>],
                      [op |-> WS_OP_CONT, fin |-> FALSE, data |-> <<>>],
                      [op |-> WS_OP_CONT, fin |-> TRUE, data |-> <<169>>]>>
    /\ log.arrived = <<Message(TRUE, <<233>>)>>

\* The frames taken are data frames in an order read_message accepts.
IsMessage(F) == IsSplit(F) \/ (Len(F) = 1 /\ F[1].op # WS_OP_CONT /\ F[1].fin)

\* C15: with size limit M = max_size, the frame with which the payload bytes
\* of a message come to more than M ends the read loop with the payload
\* error: nothing is delivered, the final error has the code 1009 and the
\* CLOSE frame 1009 is written; frames that keep the total within M are not
\* refused for their size, and a complete message of at most M bytes that
\* decodes is delivered.
C15_CumulativeSizeLimit ==
    LET F == log.frames
        raw == FramesRaw(F)
        w == WholeFrameMessage(F[1].op = WS_OP_TEXT, raw)
    IN  F # <<>> =>
            /\ Len(raw) > max_size =>
                   /\ rd.pc = "done" /\ rd.cause = "payload" /\ transfer_data_exc = 1009
                   /\ log.arrived = <<>>
                   /\ \E i \in 1..Len(sent) :
                          IsCloseFrame(sent[i]) /\ sent[i].data = SerializeClose(1009, <<>>)
            /\ Len(raw) <= max_size => rd.cause # "payload"
            /\ IsMessage(F) /\ F[Len(F)].fin /\ Len(raw) <= max_size /\ w.ok =>
                   log.arrived = <<w.msg>>

\* A message of three fragments, each within the limit of 2 bytes, was
\* refused at its third fragment, and the read loop ended with code 1009.
C15_Witness ==
    /\ max_size = 2 /\ Len(log.frames) = 3
    /\ \A i \in 1..3 : Len(log.frames[i].data) = 1
    /\ rd.pc = "done" /\ rd.cause = "payload" /\ transfer_data_exc = 1009

\* The last n elements of a sequence.
LastN(q, n) == SubSeq(q, Len(q) - n + 1, Len(q))

\* C16: with a queue of capacity N = max_queue, the queue never holds more
\* than N messages and holds the newest of those that arrived, in arrival
\* order; a message that arrives while N are queued takes the place of the
\* oldest one; and the step of the read loop that delivers a message leaves
\* the loop ready to read the next frame.
C16_BoundedQueueDropsOldest ==
    /\ [](max_queue # 0 =>
            /\ Len(messages) <= max_queue
            /\ messages = LastN(log.arrived, Len(messages)))
    /\ [][max_queue # 0 /\ Len(log'.arrived) = Len(log.arrived) + 1 =>
            /\ rd'.pc = "read"
            /\ Len(messages) = max_queue =>
                   messages' = Append(Tail(messages), log'.arrived[Len(log'.arrived)])]_vars

\* Three messages arrived for a queue of two with nobody receiving: the
\* first is gone, the other two are queued in their order.
C16_Witness ==
    /\ max_queue = 2 /\ Len(log.arrived) = 3 /\ log.delivered = <<>>
    /\ messages = Tail(log.arrived)


(***************************************************************************)
(* The opening handshake of the client.                                    *)
(***************************************************************************)
\* The handshake of the client is over, for a response of HTTP/1.1.
ClientDone ==
    /\ is_client
    /\ hs \in {"opened", "failed"}
    /\ handshake.msg.version = "HTTP/1.1"

\* The Upgrade header has exactly one value, 'websocket' in any case.
ExactlyWebsocket(upgrade) ==
    /\ Len(upgrade) = 1
    /\ upgrade[1] \in {"websocket", "WebSocket"}

\* C17: a 101 response whose Upgrade values are anything other than exactly
\* one 'websocket' (a different value, several values, no value at all)
\* makes the client handshake fail with InvalidHandshake, with no
\* connection opened.
C17_UpgradeMismatchFails ==
    (/\ ClientDone
     /\ handshake.msg.status = 101
     /\ ~ExactlyWebsocket(handshake.msg.headers.Upgrade))
    => (/\ handshake.exc = "InvalidHandshake"
        /\ hs = "failed"
        /\ state = CONNECTING)

\* The three conditions of C18 on the response.
AcceptedResponse ==
    /\ handshake.msg.status = 101
    /\ \E i \in 1..Len(handshake.msg.headers.Connection) :
          handshake.msg.headers.Connection[i] \in {"upgrade", "Upgrade"}
    /\ handshake.msg.headers.Accept = <<AcceptKey(handshake.offer.key)>>

\* C18: a client connection is OPEN only if the response has status 101, a
\* Connection header with 'upgrade' and exactly one Sec-WebSocket-Accept
\* value, the one computed from the key of the request; in every other case
\* InvalidHandshake is raised, connection_open is not called and no read
\* task is started.
C18_OpenOnlyIfAccepted ==
    /\ (is_client /\ (state = OPEN \/ hs = "opened")) => AcceptedResponse
    /\ (ClientDone /\ ~AcceptedResponse)
       => (/\ handshake.exc = "InvalidHandshake"
           /\ hs = "failed"
           /\ state = CONNECTING
           /\ rd.pc = "none"
           /\ cc = "none")

\* The response got through the checks made before the negotiation.
PassedHeaderChecks ==
    LET upgrade == handshake.msg.headers.Upgrade
    IN  /\ AcceptedResponse
        /\ \/ Len(upgrade) = 1
           \/ Len(upgrade) > 1 /\ upgrade[1] \in {"websocket", "WebSocket"}

\* The response selects something the caller did not offer.
SelectsUnoffered ==
    LET h == handshake.msg.headers
        o == handshake.offer
    IN  \/ \E i \in 1..Len(h.Extensions) :
              ~\E j \in 1..Len(o.extensions) :
                  /\ o.extensions[j].name = h.Extensions[i][1]
                  /\ h.Extensions[i][2] \in o.extensions[j].valid
        \/ \E i \in 1..Len(h.Protocol) :
              ~\E j \in 1..Len(o.subprotocols) : o.subprotocols[j] = h.Protocol[i]
        \/ Len(h.Protocol) > 1
        \/ h.Extensions # <<>> /\ o.extensions = <<>>
        \/ h.Protocol # <<>> /\ o.subprotocols = <<>>

\* C19: a response that selects an extension no offered extension matches, a
\* subprotocol that was not offered, more than one subprotocol, or anything
\* while nothing was offered, makes the client handshake fail, with
\* InvalidHandshake when the response got as far as the negotiation; on
\* success the negotiated extensions are offered ones, one for every
\* extension of the response and in its order, and the negotiated
\* subprotocol is an offered one or none.
C19_ClientNegotiation ==
    LET h == handshake.msg.headers
        o == handshake.offer
    IN  /\ (ClientDone /\ SelectsUnoffered)
           => (/\ hs = "failed"
               /\ state = CONNECTING
               /\ handshake.exc # "none"
               /\ PassedHeaderChecks => handshake.exc = "InvalidHandshake")
        /\ (is_client /\ hs = "opened")
           => (/\ Len(extensions) = Len(h.Extensions)
               /\ \A i \in 1..Len(extensions) :
                     /\ \E j \in 1..Len(o.extensions) : o.extensions[j] = extensions[i]
                     /\ extensions[i].name = h.Extensions[i][1]
                     /\ h.Extensions[i][2] \in extensions[i].valid
               /\ \/ subprotocol = "none" /\ h.Protocol = <<>>
                  \/ /\ h.Protocol = <<subprotocol>>
                     /\ \E j \in 1..Len(o.subprotocols) : o.subprotocols[j] = subprotocol)

\* A response that got to the negotiation, selected an extension with
\* parameters no offered extension accepts, and was refused.
C19_Witness ==
    /\ ClientDone
    /\ PassedHeaderChecks
    /\ handshake.offer.extensions = <<ExtA, ExtB>>
    /\ handshake.msg.headers.Extensions = <<<<"a", "q">>>>
    /\ handshake.exc = "InvalidHandshake"
    /\ hs = "failed"

(***************************************************************************)
(* The opening handshake of the server.                                    *)
(***************************************************************************)
\* The Sec-WebSocket-Key or the Sec-WebSocket-Version of the request is not
\* as it has to be.
BadKeyOrVersion ==
    LET h == handshake.msg.headers
    IN  \/ Len(h.Key) # 1
        \/ Len(h.Key) = 1 /\ h.Key[1] \in {"short", "not base64"}
        \/ Len(h.Version) # 1
        \/ Len(h.Version) = 1 /\ h.Version[1] # "13"

\* The request was let through to the header checks, and passed those made
\* before the key is looked at.
ReachedKeyCheck ==
    /\ handshake.exc \notin {"ConnectionError", "ServiceUnavailable", "AbortHandshake"}
    /\ \E i \in 1..Len(handshake.msg.headers.Connection) :
          handshake.msg.headers.Connection[i] \in {"upgrade", "Upgrade"}
    /\ handshake.exc \notin {"InvalidUpgrade", "IndexError"}

\* C20: a request the server gets to check the key and version of, and that
\* has no Sec-WebSocket-Key, more than one, or one that does not decode to
\* 16 bytes, or no Sec-WebSocket-Version, more than one, or one other than
\* '13', is answered with status 400 and handshake returns False; no request
\* with such a key or version ever gets the connection OPEN.
C20_BadKeyOrVersion ==
    (~is_client /\ hs \in {"opened", "failing", "failed"}
        /\ handshake.msg # NoHttpMessage /\ BadKeyOrVersion)
    => (/\ state # OPEN
        /\ hs \in {"failing", "failed"}
        /\ handshake.status # SWITCHING_PROTOCOLS
        /\ ReachedKeyCheck => (/\ handshake.status = BAD_REQUEST
                               /\ handshake.exc = "InvalidHandshake"))

\* A request with a good Connection and Upgrade header and a key of 15 bytes
\* was answered with 400, and handshake has returned.
C20_Witness ==
    /\ ~is_client
    /\ hs = "failed"
    /\ handshake.msg.headers.Upgrade = <<"websocket">>
    /\ handshake.msg.headers.Key = <<"short">>
    /\ handshake.msg.headers.Version = <<"13">>
    /\ handshake.status = BAD_REQUEST
    /\ state = CLOSED


\* The server's handshake is over.
ServerDone == ~is_client /\ hs \in {"opened", "failing", "failed"}

\* The request got to the Origin check and through the checks before it.
ReachedOriginCheck == ReachedKeyCheck /\ ~BadKeyOrVersion

\* The Origin header is missing, repeated, or names an origin that is not
\* allowed.
BadOrigin ==
    LET origin == handshake.msg.headers.Origin
    IN  \/ Len(origin) = 0
        \/ Len(origin) > 1
        \/ Len(origin) = 1 /\ origin[1] \notin handshake.offer.origins

\* C21: with a list of allowed origins, a request that passed the earlier
\* header checks and whose Origin header is missing, repeated or not in the
\* list is answered with 403 and never gets the connection OPEN; without a
\* list no request is refused for its Origin header.
C21_OriginPolicy ==
    /\ (ServerDone /\ handshake.offer.origins # {} /\ ReachedOriginCheck /\ BadOrigin)
       => (/\ handshake.status = FORBIDDEN
           /\ handshake.exc = "InvalidOrigin"
           /\ hs \in {"failing", "failed"}
           /\ state # OPEN)
    /\ (~is_client /\ handshake.offer.origins = {})
       => (handshake.status # FORBIDDEN /\ handshake.exc # "InvalidOrigin")

\* A request with two Origin headers was answered with 403 by a server with
\* allowed origins.
C21_Witness ==
    /\ ~is_client
    /\ hs = "failed"
    /\ handshake.offer.origins = {"o1"}
    /\ handshake.msg.headers.Origin = <<"o1", "o1">>
    /\ handshake.status = FORBIDDEN
    /\ state = CLOSED

\* The request processer and the server let the request through to the
\* header checks.
LetThrough ==
    handshake.exc \notin {"ConnectionError", "ServiceUnavailable", "AbortHandshake"}

\* C22: a request with no 'upgrade' in its Connection header, or whose
\* Upgrade header is missing or is not the one value 'websocket', is answered
\* with 426 and never gets the connection OPEN.
C22_UpgradeRequired ==
    (/\ ServerDone
     /\ LetThrough
     /\ \/ ~\E i \in 1..Len(handshake.msg.headers.Connection) :
               handshake.msg.headers.Connection[i] \in {"upgrade", "Upgrade"}
        \/ ~ExactlyWebsocket(handshake.msg.headers.Upgrade))
    => (/\ handshake.status = UPGRADE_REQUIRED
        /\ hs \in {"failing", "failed"}
        /\ state # OPEN)

\* The request got to the negotiation of the extensions, with extensions
\* available at the server.
ReachedExtensions ==
    /\ ReachedOriginCheck
    /\ handshake.exc # "InvalidOrigin"
    /\ handshake.offer.extensions # <<>>

\* The offers of the request an available extension accepts.
Acceptable(offers, available) ==
    SelectSeq(offers, LAMBDA x :
        \E j \in 1..Len(available) :
            available[j].name = x[1] /\ x[2] \in available[j].valid)

\* C23: an extension the client offers and no available extension accepts is
\* declined without failing the handshake: the handshake succeeds with 101
\* and the negotiated extensions are those of the other offers, in the order
\* of the offers.
C23_UnmatchedOfferDeclined ==
    LET offers == handshake.msg.headers.Extensions
        accepted == Acceptable(offers, handshake.offer.extensions)
    IN  (ServerDone /\ ReachedExtensions /\ accepted # offers)
        => (/\ handshake.exc = "none"
            /\ handshake.status = SWITCHING_PROTOCOLS
            /\ hs = "opened"
            /\ Len(extensions) = Len(accepted)
            /\ \A i \in 1..Len(accepted) : extensions[i].name = accepted[i][1])


\* The index of the first x in list, counted from 0.
FirstAt(list, x) ==
    (CHOOSE i \in 1..Len(list) : list[i] = x /\ \A j \in 1..(i - 1) : list[j] # x) - 1

\* C24: without a selector the server picks a subprotocol that is in the
\* list of the request and in its own, and whose sum of indexes in the two
\* lists is the least among those in both; it picks none when nothing is in
\* both.
C24_SubprotocolSelection ==
    LET parsed == handshake.msg.headers.Protocol
        available == handshake.offer.subprotocols
        both == {parsed[i] : i \in 1..Len(parsed)} \cap
                {available[i] : i \in 1..Len(available)}
        Sum(sp) == FirstAt(parsed, sp) + FirstAt(available, sp)
    IN  (~is_client /\ hs = "opened")
        => IF both = {} THEN subprotocol = "none"
           ELSE /\ subprotocol \in both
                /\ \A other \in both : Sum(subprotocol) <= Sum(other)

\* The server picked the second subprotocol of the request, the only one of
\* both lists whose sum is the least.
C24_Witness ==
    /\ ~is_client
    /\ hs = "opened"
    /\ handshake.msg.headers.Protocol = <<"chat", "mqtt">>
    /\ handshake.offer.subprotocols = <<"mqtt", "soap", "chat">>
    /\ subprotocol = "mqtt"


\* The handshake of the server failed.
ServerFailed == ~is_client /\ hs \in {"failing", "failed"}

\* The failure path was gone: an error response was written, the connection
\* failed (its close connection task runs, and when it is done the transport
\* is closed, aborted or lost), and the connection is not OPEN.
FailurePathTaken ==
    /\ handshake.status \notin {0, SWITCHING_PROTOCOLS}
    /\ cc # "none"
    /\ cc = "done" => (transport.closed \/ transport.aborted \/ transport.lost)
    /\ rd.pc \in {"none", "done"}
    /\ state # OPEN

PingStep ==
    /\ rd.pc = "read"
    /\ nReads' = nReads + 1
    /\ rd'.pc \in {"lock", "drain", "eshield"}
    /\ rd'.frame.op = WS_OP_PONG
    /\ state \in {OPEN, CLOSING}

\* C29: a PING frame the read loop takes in OPEN or in CLOSING has its PONG,
\* of the same payload, written: at once, or as soon as the write gate is
\* free.
C29_PingAnswered ==
    [][PingStep =>
          \/ /\ rd'.pc = "drain"
             /\ sent' = Append(sent, Written(rd'.frame, "rd", "write_frame", "rd"))
          \/ /\ rd'.pc = "lock"
             /\ sent' = sent]_vars


(***************************************************************************)
(* The CLOSE frames this side writes.                                      *)
(***************************************************************************)
\* The CLOSE frames written to the transport so far.
ClosesWritten == {i \in 1..Len(sent) : IsCloseFrame(sent[i])}

\* A CLOSE frame is written, or a writer of one waits for the write gate.
CloseBegun ==
    \/ ClosesWritten # {}
    \/ \E u \in Users : usr[u].pc = "lock" /\ IsCloseFrame(usr[u].frame)

\* The read loop takes a well-formed CLOSE frame of the peer and echoes it.
EchoStep ==
    /\ rd.pc = "read"
    /\ nReads' = nReads + 1
    /\ rd'.pc \in {"lock", "drain"}
    /\ IsCloseFrame(rd'.frame)

\* The read loop takes a well-formed CLOSE frame of the peer and ends without
\* an echo.
NoEchoStep ==
    /\ rd.pc = "read"
    /\ nReads' = nReads + 1
    /\ rd'.pc = "done"
    /\ rd'.cause = "close"

\* C30, as stated: at most one CLOSE frame is ever written; the peer's CLOSE
\* is echoed only when no CLOSE has been written or is waiting to be, and is
\* left without an echo only when one has.
C30_EchoedUnlessSent ==
    /\ [](Cardinality(ClosesWritten) <= 1)
    /\ [][EchoStep => ~CloseBegun]_vars
    /\ [][NoEchoStep => CloseBegun]_vars

\* C30, amended: at most one CLOSE frame is ever written; a well-formed CLOSE
\* of the peer is echoed exactly when the state is OPEN as it is taken, that
\* is when no CLOSE has been written or is waiting to be and the connection
\* is not lost.
C30_OneCloseFrame ==
    /\ [](Cardinality(ClosesWritten) <= 1)
    /\ [][EchoStep => state = OPEN /\ ~CloseBegun]_vars
    /\ [][NoEchoStep => state # OPEN /\ (CloseBegun \/ state = CLOSED)]_vars

\* close() has returned, the peer's CLOSE has been taken, the read loop has
\* failed the connection, and one CLOSE frame is written.
C30_Witness ==
    /\ Cardinality(ClosesWritten) = 1
    /\ \E u \in Users : usr[u].op = "close" /\ usr[u].pc = "done"
    /\ rd.pc = "done"
    /\ rd.cause = "close"



(***************************************************************************)
(* The registry of the server.                                             *)
(***************************************************************************)
\* The handler task of the connection was made and is not done.
HandlerTaskRunning(c) == conn[c].task \in {"handshake", "handler", "close"}

\* C26: a connection is in websockets exactly while its handler task is made
\* and not done, however the task ends.
C26_RegisteredWhileRunning ==
    \A c \in Conns : c \in websockets <=> HandlerTaskRunning(c)

\* One handler task has ended and its connection is out of websockets, while
\* another runs and its connection is in.
C26_Witness ==
    \E c, d \in Conns :
        /\ conn[c].task = "done" /\ c \notin websockets
        /\ HandlerTaskRunning(d) /\ d \in websockets



\* This step calls close(1001) of a connection.
IssueStep == \E c \in Conns : conn[c].close = "none" /\ conn'[c].close # "none"

\* C27: close(1001) is called only once the listener is closed, of every
\* registered connection and of all of them in one step; _close is done only
\* when no handler task runs and no connection is registered.
C27_ShutdownOrder ==
    /\ [][IssueStep =>
             /\ server = "closed"
             /\ \A d \in Conns : d \in websockets <=> conn'[d].close = "start"]_vars
    /\ [](closer.pc = "done" =>
             /\ server = "closed"
             /\ websockets = {}
             /\ \A c \in Conns : ~HandlerTaskRunning(c))

\* _close is done after a close(1001) of each of the two connections, both
\* of which were open.
C27_Witness ==
    /\ closer.pc = "done"
    /\ closer.closes = Conns
    /\ \A c \in Conns : conn[c].close = "done" /\ conn[c].task = "done"

\* C28: once close() of the server is called, _close ends and leaves
\* websockets empty.
C28_ShutdownCompletes ==
    closer.pc # "none" ~> (closer.pc = "done" /\ websockets = {})



(***************************************************************************)
(* The CLOSE frame of the peer.                                            *)
(***************************************************************************)
\* The payload carries a code of the valid set.
HasValidCode(d) == Len(d) >= 2 /\ ValidCloseCode(CodeFromBytes(d))

\* The bytes of the payload after the code.
ReasonBytes(d) == SubSeq(d, 3, Len(d))

\* This step records nothing of the frame of payload d and does not echo it.
NothingRecorded(d) ==
    /\ close_code' = close_code
    /\ close_reason' = close_reason
    /\ rd'.pc = "done"
    /\ \A i \in Len(sent) + 1..Len(sent') : sent'[i].data # d

\* C31, as stated: an empty CLOSE payload records 1005; a payload with a
\* valid code records the code and the decoded rest; a payload of one byte or
\* with a code outside the valid set is a protocol error that records nothing
\* and is not echoed.
C31_ClosePayload ==
    [][\A d \in CloseInputs : RdClose(d) =>
          /\ Len(d) = 0 => close_code' = 1005
          /\ HasValidCode(d) =>
                 /\ close_code' = CodeFromBytes(d)
                 /\ close_reason' = Utf8Decode(ReasonBytes(d)).chars
          /\ (Len(d) = 1 \/ (Len(d) >= 2 /\ ~HasValidCode(d))) =>
                 /\ NothingRecorded(d)
                 /\ rd'.cause = "protocol"]_vars

\* C31, amended: as above for a payload whose rest is UTF-8; a payload with
\* a valid code whose rest is not UTF-8 ends the read loop with
\* UnicodeDecodeError, records nothing and is not echoed.
C31_ClosePayloadDecoded ==
    [][\A d \in CloseInputs : RdClose(d) =>
          /\ Len(d) = 0 => close_code' = 1005 /\ close_reason' = close_reason
          /\ (HasValidCode(d) /\ Utf8Decode(ReasonBytes(d)).ok) =>
                 /\ close_code' = CodeFromBytes(d)
                 /\ close_reason' = Utf8Decode(ReasonBytes(d)).chars
          /\ (HasValidCode(d) /\ ~Utf8Decode(ReasonBytes(d)).ok) =>
                 /\ NothingRecorded(d)
                 /\ rd'.cause = "unicode"
          /\ (Len(d) = 1 \/ (Len(d) >= 2 /\ ~HasValidCode(d))) =>
                 /\ NothingRecorded(d)
                 /\ rd'.cause = "protocol"]_vars

\* The CLOSE frame of code 1001 and reason U+00E9 was taken.
C31_Witness ==
    /\ close_code = 1001
    /\ close_reason = <<233>>
    /\ rd.pc = "done"



(***************************************************************************)
(* The frames of a fragmented message.                                     *)
(***************************************************************************)
\* This step ends the read loop with a protocol error, the error stored is
\* of code 1002 and no message joins the queue.
ProtocolEnd ==
    /\ rd'.pc = "done"
    /\ rd'.cause = "protocol"
    /\ transfer_data_exc' = 1002
    /\ messages' = messages
    /\ log'.arrived = log.arrived

\* The read loop takes this data frame where another opcode is due.
OutOfPlace(op, fin, data) ==
    /\ RdData(op, fin, data)
    /\ (rd.frag /\ op \in {WS_OP_TEXT, WS_OP_BINARY}) \/ (~rd.frag /\ op = WS_OP_CONT)

\* The read loop takes this CLOSE frame inside a fragmented message, or is
\* done with the echo of one.
CloseInFragments(d) ==
    /\ rd.frag
    /\ \/ RdClose(d) /\ rd'.pc = "done"
       \/ RdDrainDone /\ rd.frame = Frame(WS_OP_CLOSE, d)

\* The payload of the CLOSE frame is one _process_CTRL_frame accepts or
\* refuses as a protocol error.
DecodableClose(d) == HasValidCode(d) => Utf8Decode(ReasonBytes(d)).ok

\* C32, as stated: a TEXT, BINARY or CLOSE frame inside a fragmented message,
\* and a CONT frame outside of one, end the read loop with a protocol error
\* of code 1002, and the message is not delivered.
C32_OutOfPlaceFrame ==
    /\ [][\A op \in WS_DATA_OPCODES : \A fin \in BOOLEAN : \A data \in Payloads :
              OutOfPlace(op, fin, data) => ProtocolEnd]_vars
    /\ [][\A d \in CloseInputs : CloseInFragments(d) => ProtocolEnd]_vars

\* C32, amended: the same of a data frame that is within the size limit and
\* of a CLOSE frame whose reason is UTF-8; whatever the frame, the read loop
\* ends and the message is not delivered.
C32_OutOfPlaceFrameRead ==
    /\ [][\A op \in WS_DATA_OPCODES : \A fin \in BOOLEAN : \A data \in Payloads :
              OutOfPlace(op, fin, data) =>
                  /\ ~OverLimit(Len(data), ReadLimit) => ProtocolEnd
                  /\ rd'.pc = "done" /\ log'.arrived = log.arrived]_vars
    /\ [][\A d \in CloseInputs : CloseInFragments(d) =>
                  /\ DecodableClose(d) => ProtocolEnd
                  /\ rd'.pc = "done" /\ log'.arrived = log.arrived]_vars

\* A fragmented TEXT message was cut short by a BINARY frame: the loop ended
\* with a protocol error and nothing was delivered.
C32_Witness ==
    /\ rd.pc = "done"
    /\ rd.cause = "protocol"
    /\ rd.frag
    /\ Len(log.frames) = 2
    /\ log.frames[1].op = WS_OP_TEXT
    /\ log.frames[2].op = WS_OP_BINARY
    /\ log.arrived = <<>>



(***************************************************************************)
(* The PONG frame no ping is waiting for.                                  *)
(***************************************************************************)
\* C33: a PONG whose payload is no pending token leaves pings and every
\* waiter as they are, raises nothing, and the read loop reads on.
C33_UnknownPongIgnored ==
    [][\A d \in PongInputs :
           RdPong(d) /\ d \notin Tokens(pings) =>
               /\ pings' = pings
               /\ waiter' = waiter
               /\ rd'.pc = "read"
               /\ rd'.throw = "none"
               /\ <<state, close_code, transfer_data_exc, sent>>' =
                      <<state, close_code, transfer_data_exc, sent>>]_vars

\* The PONG of payload <<9>> was taken while a ping of another token waits.
C33_Witness ==
    /\ rd.pc = "read"
    /\ rd.frame = Frame(WS_OP_PONG, <<9>>)
    /\ pings # <<>>
    /\ <<9>> \notin Tokens(pings)
    /\ \E u \in Users : waiter[u] = "pending"



(***************************************************************************)
(* The extensions on the frames.                                           *)
(***************************************************************************)
\* The names of the negotiated extensions, in their order.
ExtensionNames == [j \in 1..Len(extensions) |-> extensions[j].name]

\* The step takes the frame f, decoded, the way its opcode asks for.
Dispatched(f, fin) ==
    CASE f.op \in WS_DATA_OPCODES -> RdData(f.op, fin, f.data)
      [] f.op = WS_OP_CLOSE -> RdClose(f.data)
      [] f.op = WS_OP_PING -> RdPing(f.data)
      [] OTHER -> RdPong(f.data)

\* C34: every frame written, that of fail_connection too, is encoded by the
\* negotiated extensions first to last; a frame the peer encoded so is
\* decoded last to first and taken as the frame it was before.
C34_ExtensionOrder ==
    /\ [](\A i \in 1..Len(sent) : sent[i].enc = ExtensionNames)
    /\ [][\A f \in PlainFrames : \A fin \in BOOLEAN :
              RdFrame(Encode(extensions, f), fin) => Dispatched(f, fin)]_vars

\* With the extensions a and b negotiated, fail_connection has written its
\* CLOSE frame and the read loop had taken a frame before.
C34_Witness ==
    /\ Len(extensions) = 2
    /\ \E i \in 1..Len(sent) :
           sent[i].via = "fail_connection" /\ sent[i].enc = <<"a", "b">>
    /\ nReads = MaxReads



(***************************************************************************)
(* The read task and close_connection_task.                                *)
(***************************************************************************)
\* The read task is suspended in ensure_open's shield(close_connection_task).
ReadAwaitsTeardown == rd.pc \in {"eshield", "wshield"}

\* close_connection_task has not got past its await of transfer_data_task.
TeardownAwaitsRead == cc \in {"start", "wait_rd"}

\* C35: the read task never waits for close_connection_task while that task
\* waits for the read task: a PING taken after a local close() leaves the
\* read loop free to take the peer's CLOSE.
C35_NoMutualWait == ~(ReadAwaitsTeardown /\ TeardownAwaitsRead /\ rd.pc # "done")


(***************************************************************************)
(* Frames after this side's CLOSE frame.                                   *)
(***************************************************************************)
\* C36: once this side has written a CLOSE frame, every later frame on the
\* transport is a CLOSE frame too: no TEXT, BINARY, PING or PONG, not even
\* of a call that waited for the write gate when the CLOSE was written.
C36_NothingAfterClose ==
    \A i \in ClosesWritten : \A j \in (i + 1)..Len(sent) : IsCloseFrame(sent[j])


(***************************************************************************)
(* A write that fails with ConnectionError.                                *)
(***************************************************************************)
\* The calls that write one frame through write_frame.
WriteCalls == {"send", "ping", "pong"}

\* The frame of the call of u is on the transport.
FrameOf(u) == \E i \in 1..Len(sent) : sent[i].by = u /\ sent[i].via = "write_frame"

\* C37: send, ping and pong return normally only with their frame written
\* and drained; when drain raises ConnectionError the connection is failed
\* (close_connection_task runs, the read task is cancelled or done) and the
\* call raises ConnectionClosed, at once or after close_connection_task.
C37_WriteErrorRaises ==
    /\ [](\A u \in Users :
            usr[u].op \in WriteCalls /\ (usr[u].res = "ok" \/ usr[u].pc = "pingwait")
                => FrameOf(u) /\ lockHolder # u)
    /\ [][\A u \in Users :
            usr[u].op \in WriteCalls /\ DrainError(u)
                => /\ cc' # "none"
                   /\ rd'.pc = "done" \/ rd'.throw # "none"
                   /\ \/ usr'[u].pc = "wshield"
                      \/ usr'[u].pc = "done" /\ usr'[u].res = "ConnectionClosed"]_vars


(***************************************************************************)
(* The close code after the end.                                           *)
(***************************************************************************)
\* The connection is CLOSED and transfer_data has ended.
Ended == state = CLOSED /\ rd.pc = "done"

\* C38: once the connection is CLOSED and the read loop has ended, the code
\* of the final ConnectionClosed handed to receive(), the code of the
\* ConnectionClosed that send, ping and pong raise, and close_code are one
\* and the same.
C38_OneCloseCode ==
    Ended =>
        /\ transfer_data_exc = close_code
        /\ \A u \in Users :
              usr[u].op \in WriteCalls /\ usr[u].cs = CLOSED
                  /\ usr[u].res = "ConnectionClosed"
              => usr[u].code = close_code


(***************************************************************************)
(* The connection that leaves the registry.                                *)
(***************************************************************************)
\* The closing handshake of c was started, or its transport is lost, closed
\* or aborted.
ConnClosed(c) == conn'[c].state \in {CLOSING, CLOSED} \/ conn'[c].tr # "open"

\* C39: a connection whose lifetime handler ends, by whatever path, has been
\* closed before it is removed from the registry: none leaves the registry
\* OPEN with its transport open.
C39_ClosedBeforeUnregistered ==
    [][\A c \in Conns : c \in websockets /\ c \notin websockets' => ConnClosed(c)]_vars


(***************************************************************************)
(* close_code of a CLOSED connection.                                      *)
(***************************************************************************)
\* connection_lost is called in this step.
LostStep == ~transport.lost /\ transport'.lost

\* C40: a CLOSED connection has a nonzero close_code: connection_lost keeps
\* the code recorded from the CLOSE frame of the peer and sets 1006 when no
\* code was recorded, and no step takes a recorded code back to 0.
C40_ClosedHasCode ==
    /\ [](state = CLOSED => close_code # 0)
    /\ [][/\ LostStep => /\ state' = CLOSED
                         /\ close_code' = IF close_code # 0 THEN close_code ELSE 1006
          /\ close_code # 0 => close_code' # 0]_vars

\* The connection was lost after the CLOSE frame of the peer had given the
\* code 1001, which it still has.
C40_Witness ==
    /\ state = CLOSED /\ transport.lost
    /\ close_code = 1001
    /\ rd.cause = "close"
    /\ \E i \in ClosesWritten : sent[i].by = "rd" /\ sent[i].via = "write_frame"

====
